---- MODULE Spec2Model ----
(***************************************************************************)
(* Response / error envelope and request-authorization middleware of the   *)
(* go-backend-template service.                                            *)
(*                                                                         *)
(* One request at a time travels the chain                                 *)
(*   RequestID -> Zerolog -> Recover -> [JWTMiddleware] -> [RequireRole]   *)
(*   -> handler                                                            *)
(* and unwinds through Zerolog, which hands a returned error to            *)
(* ErrorHandler.  Error values are wrap chains (outermost link first); the *)
(* nil error is the empty chain.  The Timeout middleware passes requests   *)
(* through: runs in which the 30 s timeout fires are not modelled.         *)
(***************************************************************************)
EXTENDS Integers, Sequences, FiniteSets, TLC

VARIABLES currentEnv, phase, cur, served, lastRejected, call, itemsTable, slots

vars == <<currentEnv, phase, cur, served, lastRejected, call, itemsTable, slots>>

(***************************************************************************)
(* Bounds                                                                  *)
(***************************************************************************)
\* number of requests served in one run
MaxRequests == 2

\* number of SetEnv calls in one run of the calls on their own
MaxSetEnvCalls == 3

(***************************************************************************)
(* config/env.go                                                           *)
(***************************************************************************)
Development == "development"
Production == "production"

\* arguments SetEnv is called with (cfg.Server.Env is a free string)
EnvArgs == {"development", "production", "Development", "DEVELOPMENT", "staging", ""}

\* strings.ToLower on the argument strings above
ToLower(s) ==
  CASE s = "Development" -> "development"
    [] s = "DEVELOPMENT" -> "development"
    [] OTHER -> s

\* SetEnv comparing the argument as it is written
SetEnvResult_CaseSensitive(env) == IF env = Development THEN Development ELSE Production

\* the value SetEnv(env) leaves in currentEnv
SetEnvResult(env) == IF ToLower(env) = Development THEN Development ELSE Production

IsDev == currentEnv = Development

IsProd == currentEnv = Production

(***************************************************************************)
(* Error values                                                            *)
(***************************************************************************)
\* the nil error
NilErr == <<>>

\* a value of AppError.Details: kind "nil" is interface{}(nil), "nilslice" a nil
\* []ValidationError, "slice" a non-nil one holding items, "value" any other
\* value json can marshal, "unserializable" one it cannot (a channel, a func)
DetailsValue(kind, items) == [kind |-> kind, items |-> items]

\* nil details (interface{}(nil))
NoDetails == DetailsValue("nil", <<>>)

StatusInternalServerError == 500
StatusUnauthorized == 401
StatusForbidden == 403
StatusNotFound == 404
StatusBadRequest == 400
StatusOK == 200
StatusCreated == 201
StatusNoContent == 204
StatusAccepted == 202
StatusUnprocessableEntity == 422
StatusConflict == 409
StatusTooManyRequests == 429
StatusUnsupportedMediaType == 415
StatusServiceUnavailable == 503

\* one link of a wrap chain; every kind of link carries the same fields
Link(kind, status, code, message, details, err) ==
  [kind |-> kind, StatusCode |-> status, Code |-> code, Message |-> message,
   Details |-> details, Err |-> err]

\* errors.New(text)
Opaque(text) == <<Link("opaque", 0, "", text, NoDetails, NilErr)>>

\* fmt.Errorf(text + ": %w", inner)
Wrap(text, inner) == <<Link("wrap", 0, "", text, NoDetails, NilErr)>> \o inner

\* echo.NewHTTPError(code, message), optionally with Internal set
HTTPError(code, message, internal) ==
  <<Link("http", code, "", message, NoDetails, NilErr)>> \o internal

\* an echo.HTTPError whose Message is not a string: an error value
\* (kind "errormessage") or any other value (kind "valuemessage"), text being
\* what m.Error() or fmt.Sprint gives for it
HTTPErrorValue(code, kind, text) ==
  <<Link("http", code, "", "", DetailsValue(kind, <<text>>), NilErr)>>

\* a (*AppError)(nil) held in an error interface
TypedNilAppError == <<Link("nilapp", 0, "", "", NoDetails, NilErr)>>

NewAppError(status, code, message, details, err) ==
  <<Link("app", status, code, message, details, err)>>

ErrBadRequest(message, details) ==
  NewAppError(StatusBadRequest, "ERR_BAD_REQUEST", message, details, NilErr)

ErrUnauthorized(message) ==
  NewAppError(StatusUnauthorized, "ERR_UNAUTHORIZED", message, NoDetails, NilErr)

ErrForbidden(message) ==
  NewAppError(StatusForbidden, "ERR_FORBIDDEN", message, NoDetails, NilErr)

ErrNotFound(message) ==
  NewAppError(StatusNotFound, "ERR_NOT_FOUND", message, NoDetails, NilErr)

\* a []ValidationError held in AppError.Details
ValidationDetails(details) == DetailsValue("validationerrors", details)

ErrValidationFailed(details) ==
  NewAppError(StatusUnprocessableEntity, "ERR_VALIDATION", "Validation failed",
              ValidationDetails(details), NilErr)

\* ErrConflict sharing the code of ErrBadRequest
ErrConflict_SharedCode(message) ==
  NewAppError(StatusConflict, "ERR_BAD_REQUEST", message, NoDetails, NilErr)

ErrConflict(message) ==
  NewAppError(StatusConflict, "ERR_CONFLICT", message, NoDetails, NilErr)

ErrTooManyRequests(message) ==
  NewAppError(StatusTooManyRequests, "ERR_TOO_MANY_REQUESTS", message, NoDetails, NilErr)

ErrUnsupportedMediaType(message) ==
  NewAppError(StatusUnsupportedMediaType, "ERR_UNSUPPORTED_MEDIA_TYPE", message,
              NoDetails, NilErr)

ErrServiceUnavailable(message) ==
  NewAppError(StatusServiceUnavailable, "ERR_SERVICE_UNAVAILABLE", message, NoDetails, NilErr)

\* ErrInternalError taking the user message from the wrapped error's text
ErrInternalError_LeaksText(err) ==
  NewAppError(StatusInternalServerError, "ERR_INTERNAL", err[1].Message, NoDetails, err)

ErrInternalError(err) ==
  NewAppError(StatusInternalServerError, "ERR_INTERNAL", "Something went wrong", NoDetails, err)

ErrInternalErrorMsg(message, err) ==
  NewAppError(StatusInternalServerError, "ERR_INTERNAL", message, NoDetails, err)

\* the constructors of error.go by name
Constructors ==
  {"ErrBadRequest", "ErrValidationFailed", "ErrUnauthorized", "ErrForbidden", "ErrNotFound",
   "ErrConflict", "ErrTooManyRequests", "ErrUnsupportedMediaType", "ErrServiceUnavailable",
   "ErrInternalError", "ErrInternalErrorMsg"}

\* the constructor called with the arguments it takes; validation is the
\* []ValidationError argument of ErrValidationFailed
Construct(ctor, message, details, validation, err) ==
  CASE ctor = "ErrBadRequest" -> ErrBadRequest(message, details)
    [] ctor = "ErrValidationFailed" -> ErrValidationFailed(validation)
    [] ctor = "ErrUnauthorized" -> ErrUnauthorized(message)
    [] ctor = "ErrForbidden" -> ErrForbidden(message)
    [] ctor = "ErrNotFound" -> ErrNotFound(message)
    [] ctor = "ErrConflict" -> ErrConflict(message)
    [] ctor = "ErrTooManyRequests" -> ErrTooManyRequests(message)
    [] ctor = "ErrUnsupportedMediaType" -> ErrUnsupportedMediaType(message)
    [] ctor = "ErrServiceUnavailable" -> ErrServiceUnavailable(message)
    [] ctor = "ErrInternalError" -> ErrInternalError(err)
    [] ctor = "ErrInternalErrorMsg" -> ErrInternalErrorMsg(message, err)

(***************************************************************************)
(* Error sets the model draws from                                         *)
(***************************************************************************)
\* AppError.StatusCode values, 0 being the zero value
Statuses == {0, 404, 500}

\* AppError.Code values, "" being the zero value
Codes == {"", "ERR_NOT_FOUND"}

Messages == {"Item not found"}

DetailValues == {NoDetails, DetailsValue("value", <<>>)}

\* non-AppError causes
Causes == {NilErr, Opaque("db down")}

AppErrors ==
  { NewAppError(s, c, m, d, e) : s \in Statuses, c \in Codes, m \in Messages,
                                 d \in DetailValues, e \in Causes }

\* echo's routing errors and a 5xx framework error
HTTPErrors ==
  { HTTPError(s, m, NilErr) : s \in {404, 405, 503}, m \in {"Not Found"} }

OpaqueErrors == { Opaque("db down") }

\* an HTTPError whose Internal is an AppError (HTTPError.Unwrap returns Internal)
HTTPWrappingApp ==
  { HTTPError(400, "Bad Request", a) : a \in {ErrNotFound("Item not found"),
                                             NewAppError(0, "", "Item not found", NoDetails, NilErr)} }

BaseErrors == AppErrors \cup HTTPErrors \cup OpaqueErrors \cup HTTPWrappingApp

\* every non-nil error value a handler or middleware may return
AllErrors == BaseErrors \cup { Wrap("ctx", e) : e \in BaseErrors }

(***************************************************************************)
(* errors.As                                                               *)
(***************************************************************************)
\* index of the first link of the given kind on the chain, 0 when none
FirstOfKind(err, kind) ==
  IF \E i \in 1..Len(err) : err[i].kind = kind
  THEN CHOOSE i \in 1..Len(err) :
         /\ err[i].kind = kind
         /\ \A j \in 1..(i - 1) : err[j].kind # kind
  ELSE 0

\* errors.As looking at the outermost error only
AsAppError_OuterOnly(err) == IF err[1].kind = "app" THEN 1 ELSE 0

\* errors.As(err, &appErr) && appErr != nil
AsAppError(err) == FirstOfKind(err, "app")

AsHTTPError(err) == FirstOfKind(err, "http")

(***************************************************************************)
(* Validation errors and their translation                                 *)
(***************************************************************************)
\* validator.FieldError: the struct field, the violated tag and its parameter
FieldError(field, tag, param) == [Field |-> field, Tag |-> tag, Param |-> param]

\* validator.ValidationErrors as an error value
ValidationErrors(fieldErrors) ==
  <<Link("validation", 0, "", "validation failed", DetailsValue("fielderrors", fieldErrors),
         NilErr)>>

\* response.ValidationError; Message is the list of the pieces concatenated
ValidationError(field, message) == [Field |-> field, Message |-> message]

\* the tags validationMessage has a case for
TableTags ==
  {"required", "email", "min", "max", "gte", "gt", "lte", "lt", "len", "alpha", "alphanum",
   "numeric", "url", "uuid", "ip", "oneof"}

\* validationMessage with a switch that only knows required, email, min, max,
\* url, uuid and oneof
validationMessage_ShortTable(e) ==
  CASE e.Tag = "required" -> <<"This field is required">>
    [] e.Tag = "email" -> <<"Must be a valid email address">>
    [] e.Tag = "min" -> <<"Must be at least ", e.Param, " characters/items">>
    [] e.Tag = "max" -> <<"Must be at most ", e.Param, " characters/items">>
    [] e.Tag = "url" -> <<"Must be a valid URL">>
    [] e.Tag = "uuid" -> <<"Must be a valid UUID">>
    [] e.Tag = "oneof" -> <<"Must be one of: ", e.Param>>
    [] OTHER -> <<"Invalid value">>

validationMessage(e) ==
  CASE e.Tag = "required" -> <<"This field is required">>
    [] e.Tag = "email" -> <<"Must be a valid email address">>
    [] e.Tag = "min" -> <<"Must be at least ", e.Param, " characters/items">>
    [] e.Tag = "max" -> <<"Must be at most ", e.Param, " characters/items">>
    [] e.Tag = "gte" -> <<"Must be greater than or equal to ", e.Param>>
    [] e.Tag = "gt" -> <<"Must be greater than ", e.Param>>
    [] e.Tag = "lte" -> <<"Must be less than or equal to ", e.Param>>
    [] e.Tag = "lt" -> <<"Must be less than ", e.Param>>
    [] e.Tag = "len" -> <<"Must be exactly ", e.Param, " characters long">>
    [] e.Tag = "alpha" -> <<"Must contain only letters">>
    [] e.Tag = "alphanum" -> <<"Must contain only letters and numbers">>
    [] e.Tag = "numeric" -> <<"Must be a valid numeric value">>
    [] e.Tag = "url" -> <<"Must be a valid URL">>
    [] e.Tag = "uuid" -> <<"Must be a valid UUID">>
    [] e.Tag = "ip" -> <<"Must be a valid IP address">>
    [] e.Tag = "oneof" -> <<"Must be one of: ", e.Param>>
    [] OTHER -> <<"Invalid value">>

\* the legacy formatter of error_response.go
formatValidationError(e) ==
  CASE e.Tag = "required" -> <<"This field is required">>
    [] e.Tag = "email" -> <<"Must be a valid email address">>
    [] e.Tag = "min" -> <<"Must be at least ", e.Param, " characters">>
    [] e.Tag = "max" -> <<"Must be at most ", e.Param, " characters">>
    [] e.Tag = "oneof" -> <<"Must be one of: ", e.Param>>
    [] e.Tag = "uuid" -> <<"Must be a valid UUID">>
    [] e.Tag = "indian_phone" -> <<"Must be a valid 10-digit Indian phone number">>
    [] e.Tag = "court_id" -> <<"Must be a valid court ID">>
    [] OTHER -> <<"Invalid value">>

\* ToValidationErrors keeping only the first violation
ToValidationErrors_FirstOnly(err) ==
  LET i == FirstOfKind(err, "validation")
  IN IF i = 0 \/ err[i].Details.items = <<>> THEN <<>>
     ELSE <<ValidationError(err[i].Details.items[1].Field,
                            validationMessage(err[i].Details.items[1]))>>

\* the result is a sequence of ValidationError; the nil slice is <<>>
ToValidationErrors(err) ==
  LET i == FirstOfKind(err, "validation")
  IN IF i = 0 THEN <<>>
     ELSE [k \in 1..Len(err[i].Details.items) |->
             ValidationError(err[i].Details.items[k].Field,
                             validationMessage(err[i].Details.items[k]))]

(***************************************************************************)
(* Responses (echo.Response) and envelopes                                 *)
(***************************************************************************)
\* time.Now().Format(time.RFC3339), one instant
Now == "2026-01-01T00:00:00Z"

\* string(debug.Stack()), never empty
DebugStackText == "goroutine 1 [running]"

\* a fresh echo.Response: nothing written, X-Request-ID header set by RequestID()
NewResponse(rid) == [Committed |-> FALSE, Status |-> 0, Bodies |-> <<>>, RequestID |-> rid]

\* c.JSON(status, body): the first write commits status, 200 standing in for a
\* status of 0; every write appends a body
JSON(c, status, body) ==
  [c EXCEPT !.Committed = TRUE,
            !.Status = IF c.Committed THEN c.Status
                       ELSE IF status = 0 THEN StatusOK ELSE status,
            !.Bodies = Append(c.Bodies, body)]

\* the marshalled body of c.NoContent
EmptyBody == [empty |-> TRUE]

\* c.NoContent(status)
NoContentWrite(c, status) ==
  [c EXCEPT !.Committed = TRUE,
            !.Status = IF c.Committed THEN c.Status ELSE status,
            !.Bodies = Append(c.Bodies, EmptyBody)]

\* json.Marshal(errorResponse): details and debug_stack carry omitempty
errorResponse(message, errorCode, requestID, details, debugStack) ==
  LET base == [success |-> FALSE, timestamp |-> Now, message |-> message,
               request_id |-> requestID, error_code |-> errorCode]
      withDetails == IF details = NoDetails THEN base
                     ELSE base @@ [details |-> details]
  IN IF debugStack = "" THEN withDetails
     ELSE withDetails @@ [debug_stack |-> debugStack]

\* json.Marshal(successResponse[T])
successResponse(message, requestID, data) ==
  [success |-> TRUE, timestamp |-> Now, message |-> message,
   request_id |-> requestID, data |-> data]

\* respondSuccess without the no-content short cut
respondSuccess_AlwaysEnvelope(c, status, message, data) ==
  IF c.Committed THEN c
  ELSE JSON(c, status, successResponse(message, c.RequestID, data))

respondSuccess(c, status, message, data) ==
  IF c.Committed THEN c
  ELSE IF status = StatusNoContent THEN NoContentWrite(c, StatusNoContent)
  ELSE JSON(c, status, successResponse(message, c.RequestID, data))

\* the error respondSuccess returns: nil on a committed response, else what
\* c.NoContent or c.JSON returns, an error only for data json.Marshal rejects
respondSuccessErr(c, status, message, data) ==
  IF c.Committed THEN NilErr
  ELSE IF status = StatusNoContent THEN NilErr
  ELSE IF data \in {"null", "item"} THEN NilErr
  ELSE Opaque("json: unsupported type")

(***************************************************************************)
(* response.ErrorHandler                                                   *)
(***************************************************************************)
\* ErrorHandler without the Committed guard
ErrorHandlerSkips_NoCommittedGuard(err, c) == err = NilErr

\* early return of ErrorHandler
ErrorHandlerSkips(err, c) == err = NilErr \/ c.Committed

\* ErrorHandler without the zero-value defaults
ErrorAfterHandler_NoDefaults(err) == err

\* the error value after ErrorHandler ran: an AppError found on the chain has
\* its zero StatusCode and empty Code overwritten in place
ErrorAfterHandler(err) ==
  LET i == AsAppError(err)
  IN IF i = 0 THEN err
     ELSE [err EXCEPT ![i].StatusCode = IF @ = 0 THEN StatusInternalServerError ELSE @,
                      ![i].Code = IF @ = "" THEN "ERR_UNKNOWN" ELSE @]

\* the type switch on httpErr.Message: a string as it is, an error by its
\* Error(), any other value by fmt.Sprint
HTTPMessageText(link) ==
  CASE link.Details.kind = "errormessage" -> link.Details.items[1]
    [] link.Details.kind = "valuemessage" -> link.Details.items[1]
    [] OTHER -> link.Message

\* ErrorHandler answering every framework error with 500
ClassifyError_Framework500(err) ==
  LET i == AsAppError(err)
      h == AsHTTPError(err)
  IN IF i # 0 THEN ErrorAfterHandler(err)[i]
     ELSE IF h # 0
       THEN Link("app", StatusInternalServerError, "ERR_ECHO", HTTPMessageText(err[h]), NoDetails,
                 SubSeq(err, h, Len(err)))
     ELSE ErrInternalError(err)[1]

\* the *AppError the handler ends up with (appErr after the if/else-if/else)
ClassifyError(err) ==
  LET i == AsAppError(err)
      h == AsHTTPError(err)
  IN IF i # 0 THEN ErrorAfterHandler(err)[i]
     ELSE IF h # 0
       THEN Link("app", err[h].StatusCode, "ERR_ECHO", HTTPMessageText(err[h]), NoDetails,
                 SubSeq(err, h, Len(err)))
     ELSE ErrInternalError(err)[1]

\* which of the three rules fired
ClassifyRule(err) ==
  IF AsAppError(err) # 0 THEN "app"
  ELSE IF AsHTTPError(err) # 0 THEN "http"
  ELSE "opaque"

\* the stack attached without looking at config.IsDev()
ErrorDebugStack_AnyMode(appErr, env) ==
  IF appErr.StatusCode >= 500 /\ appErr.Err # NilErr
  THEN DebugStackText ELSE ""

ErrorDebugStack(appErr, env) ==
  IF env = Development /\ appErr.StatusCode >= 500 /\ appErr.Err # NilErr
  THEN DebugStackText ELSE ""

\* a Details value json.Marshal rejects (a channel, a func)
UnserializableDetails == DetailsValue("unserializable", <<>>)

\* json.Marshal(resp) succeeds
Serializable(details) == details.kind # "unserializable"

\* net/http's WriteHeader panics on a status code outside 100..999; echo's
\* Response.Write turns a status of 0 into 200 before it calls WriteHeader
ValidStatusCode(code) == code = 0 \/ (code >= 100 /\ code <= 999)

\* c.JSON gets as far as writing the body
ErrorHandlerWrites(err, c) ==
  /\ ~ErrorHandlerSkips(err, c)
  /\ Serializable(ClassifyError(err).Details)
  /\ ValidStatusCode(ClassifyError(err).StatusCode)

\* ErrorHandler has no recover: the panic of WriteHeader reaches its caller
ErrorHandlerRaises(err, c) ==
  /\ ~ErrorHandlerSkips(err, c)
  /\ Serializable(ClassifyError(err).Details)
  /\ ~ValidStatusCode(ClassifyError(err).StatusCode)

\* ErrorHandler returning early on a nil error only
ErrorHandler_WritesTwice(err, c, env) ==
  IF err = NilErr THEN c
  ELSE LET appErr == ClassifyError(err)
       IN JSON(c, appErr.StatusCode,
               errorResponse(appErr.Message, appErr.Code, c.RequestID,
                             appErr.Details, ErrorDebugStack(appErr, env)))

\* the response after ErrorHandler(err, c) under mode env; c.JSON sets
\* Response.Status before it marshals, and the error it returns is dropped
ErrorHandler(err, c, env) ==
  IF ErrorHandlerSkips(err, c) THEN c
  ELSE IF ~ErrorHandlerWrites(err, c)
  THEN [c EXCEPT !.Status = ClassifyError(err).StatusCode]
  ELSE LET appErr == ClassifyError(err)
       IN JSON(c, appErr.StatusCode,
               errorResponse(appErr.Message, appErr.Code, c.RequestID,
                             appErr.Details, ErrorDebugStack(appErr, env)))

\* what the client receives when the request is over: net/http answers 200
\* with an empty body when the handler chain returned without writing
ClientResponse(c) ==
  IF c.Committed THEN [Status |-> c.Status, Bodies |-> c.Bodies]
  ELSE [Status |-> StatusOK, Bodies |-> <<>>]

(***************************************************************************)
(* Bearer credentials and JWTMiddleware (echojwt.WithConfig)               *)
(***************************************************************************)
TokenRoles == {"admin", "viewer"}

TokenTypes == {"access", "refresh"}

Token(form, sig, expired, role, tokenType) ==
  [present |-> TRUE, form |-> form, sig |-> sig, expired |-> expired,
   Role |-> role, TokenType |-> tokenType]

\* no credential at a lookup place; also the empty "user" context slot
NoToken ==
  [present |-> FALSE, form |-> "", sig |-> "", expired |-> FALSE,
   Role |-> "", TokenType |-> ""]

ValidTokens == { Token("wellformed", "good", FALSE, r, t) : r \in TokenRoles, t \in TokenTypes }

MalformedToken == Token("malformed", "", FALSE, "", "")
BadSignatureToken == Token("wellformed", "bad", FALSE, "admin", "access")
ExpiredToken == Token("wellformed", "good", TRUE, "admin", "access")

InvalidTokens == {MalformedToken, BadSignatureToken, ExpiredToken}

\* what the Authorization header may carry
HeaderCredentials == {NoToken} \cup ValidTokens \cup InvalidTokens

\* what the token query parameter may carry
QueryCredentials ==
  {NoToken, Token("wellformed", "good", FALSE, "viewer", "access"), BadSignatureToken}

\* a parse that also turns away every token that is not an access token
ParseToken_AccessOnly(tok) ==
  IF ~tok.present THEN "missing"
  ELSE IF tok.form # "wellformed" THEN "malformed"
  ELSE IF tok.sig # "good" THEN "badsig"
  ELSE IF tok.expired THEN "expired"
  ELSE IF tok.TokenType # "access" THEN "wrongtype"
  ELSE "ok"

\* jwt.ParseWithClaims under the signing key: "ok" or the step that failed
ParseToken(tok) ==
  IF ~tok.present THEN "missing"
  ELSE IF tok.form # "wellformed" THEN "malformed"
  ELSE IF tok.sig # "good" THEN "badsig"
  ELSE IF tok.expired THEN "expired"
  ELSE "ok"

\* TokenLookup "header:Authorization:Bearer ,query:token": the first credential
\* that parses is taken, header before query
LookupToken(hdr, qry) ==
  IF ParseToken(hdr) = "ok" THEN hdr
  ELSE IF ParseToken(qry) = "ok" THEN qry
  ELSE NoToken

\* the error echojwt hands to Config.ErrorHandler: the last token error,
\* else the extractor's missing-credential error
LookupFailure(hdr, qry) ==
  IF qry.present THEN ParseToken(qry)
  ELSE IF hdr.present THEN ParseToken(hdr)
  ELSE "missing"

\* a Config.ErrorHandler that reports the verification step that failed
JWTErrorHandler_NamesReason(reason) == ErrUnauthorized(reason)

\* Config.ErrorHandler of JWTMiddleware; reason is echojwt's own error
JWTErrorHandler(reason) == ErrUnauthorized("Invalid or missing authentication token")

\* JWTMiddleware letting a request without any credential through
JWTMiddleware_ContinuesOnMissing(hdr, qry) ==
  LET tok == LookupToken(hdr, qry)
  IN IF tok.present \/ LookupFailure(hdr, qry) = "missing"
     THEN [next |-> TRUE, user |-> tok, err |-> NilErr, reason |-> "ok"]
     ELSE [next |-> FALSE, user |-> NoToken,
           err |-> JWTErrorHandler(LookupFailure(hdr, qry)),
           reason |-> LookupFailure(hdr, qry)]

\* JWTMiddleware on credentials hdr, qry: the token stored under "user", whether
\* next runs, and the error returned when it does not
JWTMiddleware(hdr, qry) ==
  LET tok == LookupToken(hdr, qry)
  IN IF tok.present
     THEN [next |-> TRUE, user |-> tok, err |-> NilErr, reason |-> "ok"]
     ELSE [next |-> FALSE, user |-> NoToken,
           err |-> JWTErrorHandler(LookupFailure(hdr, qry)),
           reason |-> LookupFailure(hdr, qry)]

(***************************************************************************)
(* ValidateRefreshToken                                                    *)
(***************************************************************************)
\* JWT_AT_SECRET and JWT_RT_SECRET
Secrets == {"at-secret", "rt-secret"}

\* a token string: how it is formed, the key it was signed with, whether its
\* exp has passed, and the role and token_type claims it carries
SignedToken(form, key, expired, role, tokenType) ==
  [form |-> form, key |-> key, expired |-> expired, Role |-> role, TokenType |-> tokenType]

TokenStrings ==
  {SignedToken("malformed", "", FALSE, "", "")}
    \cup { SignedToken("wellformed", k, e, r, t) :
             k \in Secrets, e \in BOOLEAN, r \in TokenRoles, t \in TokenTypes \cup {""} }

\* jwt.ParseWithClaims(tokenString, &JWTClaims{}, keyfunc returning secretKey):
\* "ok" or the step that failed
ParseWithClaims(tok, secretKey) ==
  IF tok.form # "wellformed" THEN "malformed"
  ELSE IF tok.key # secretKey THEN "badsig"
  ELSE IF tok.expired THEN "expired"
  ELSE "ok"

\* a nil *JWTClaims
NilClaims == [present |-> FALSE, Role |-> "", TokenType |-> ""]

\* ValidateRefreshToken without the token_type test
ValidateRefreshToken_AnyType(tok, secretKey) ==
  IF ParseWithClaims(tok, secretKey) # "ok"
  THEN [claims |-> NilClaims, err |-> Opaque(ParseWithClaims(tok, secretKey))]
  ELSE [claims |-> [present |-> TRUE, Role |-> tok.Role, TokenType |-> tok.TokenType],
        err |-> NilErr]

ValidateRefreshToken(tok, secretKey) ==
  IF ParseWithClaims(tok, secretKey) # "ok"
  THEN [claims |-> NilClaims, err |-> Opaque(ParseWithClaims(tok, secretKey))]
  ELSE IF tok.TokenType # "refresh"
  THEN [claims |-> NilClaims, err |-> Opaque("invalid token")]
  ELSE [claims |-> [present |-> TRUE, Role |-> tok.Role, TokenType |-> tok.TokenType],
        err |-> NilErr]

(***************************************************************************)
(* GetClaims and RequireRole                                               *)
(***************************************************************************)
\* GetClaims(c): the claims stored under "user", or Unauthorized
\* values a caller may find under the context key "user": nothing, a value
\* that is not a *jwt.Token, a token whose Claims are not *JWTClaims, or a
\* token carrying JWTClaims
NonTokenValue == Token("nontoken", "", FALSE, "", "")

ForeignClaimsToken == Token("foreignclaims", "good", FALSE, "", "")

ContextValues == {NoToken, NonTokenValue, ForeignClaimsToken} \cup ValidTokens

\* GetClaims answering a wrong claims shape as a missing token
GetClaims_OneMessage(user) ==
  IF ~user.present \/ user.form = "nontoken" \/ user.form = "foreignclaims"
  THEN [claims |-> NoToken, err |-> ErrUnauthorized("JWT token missing or invalid")]
  ELSE [claims |-> user, err |-> NilErr]

GetClaims(user) ==
  IF ~user.present \/ user.form = "nontoken"
  THEN [claims |-> NoToken, err |-> ErrUnauthorized("JWT token missing or invalid")]
  ELSE IF user.form = "foreignclaims"
  THEN [claims |-> NoToken, err |-> ErrUnauthorized("Failed to validate token")]
  ELSE [claims |-> user, err |-> NilErr]

\* a role check that looks at the first allowed role only
RoleAllowed_FirstOnly(allowedRoles, role) ==
  allowedRoles # <<>> /\ role = Head(allowedRoles)

\* the loop over allowedRoles: TRUE when it returns next(c)
RECURSIVE RoleAllowed(_, _)
RoleAllowed(allowedRoles, role) ==
  IF allowedRoles = <<>> THEN FALSE
  ELSE IF role = Head(allowedRoles) THEN TRUE
  ELSE RoleAllowed(Tail(allowedRoles), role)

\* RequireRole answering Forbidden when the claims are missing
RequireRole_ForbidsWithoutClaims(allowedRoles, user) ==
  LET got == GetClaims(user)
  IN IF got.err # NilErr
     THEN [next |-> FALSE, err |-> ErrForbidden("Insufficient permissions")]
     ELSE IF RoleAllowed(allowedRoles, got.claims.Role) THEN [next |-> TRUE, err |-> NilErr]
     ELSE [next |-> FALSE, err |-> ErrForbidden("Insufficient permissions")]

\* RequireRole(allowedRoles...) on a context whose "user" slot holds user
RequireRole(allowedRoles, user) ==
  LET got == GetClaims(user)
  IN IF got.err # NilErr THEN [next |-> FALSE, err |-> got.err]
     ELSE IF RoleAllowed(allowedRoles, got.claims.Role) THEN [next |-> TRUE, err |-> NilErr]
     ELSE [next |-> FALSE, err |-> ErrForbidden("Insufficient permissions")]

\* allow-lists routes are registered with
AllowLists == { <<"admin">>, <<"admin", "editor">>, <<"editor", "admin", "admin">>, <<>> }

Route(jwt, role, allowed) == [jwt |-> jwt, role |-> role, allowed |-> allowed]

\* an open route, a JWT route, JWT -> RequireRole routes, RequireRole standalone
Routes ==
  {Route(FALSE, FALSE, <<>>), Route(TRUE, FALSE, <<>>)}
    \cup { Route(TRUE, TRUE, a) : a \in AllowLists }
    \cup { Route(FALSE, TRUE, a) : a \in AllowLists }

(***************************************************************************)
(* The Gin helpers of error_response.go                                    *)
(***************************************************************************)
\* time.Now().Unix()
NowUnix == 1767225600

\* a gin.Context inside a handler: whether the chain was aborted, what was
\* written, and how many of the handlers after this one ran
NewGinContext == [aborted |-> FALSE, Status |-> 0, Bodies |-> <<>>, laterRuns |-> 0]

\* c.JSON(status, body)
GinJSON(g, status, body) ==
  [g EXCEPT !.Status = IF g.Bodies = <<>> THEN status ELSE @, !.Bodies = Append(@, body)]

\* c.JSON where c.AbortWithStatusJSON is meant
AbortWithStatusJSON_NoAbort(g, status, body) == GinJSON(g, status, body)

\* c.AbortWithStatusJSON(status, body): c.Abort(), then c.JSON
AbortWithStatusJSON(g, status, body) == GinJSON([g EXCEPT !.aborted = TRUE], status, body)

\* c.Next() after the handler returned: the handlers after it run unless the
\* chain was aborted
GinNext(g) == IF g.aborted THEN g ELSE [g EXCEPT !.laterRuns = @ + 1]

\* json.Marshal(ErrorDetail): details carries omitempty
ErrorDetail(code, message, details) ==
  IF DOMAIN details = {} THEN [code |-> code, message |-> message]
  ELSE [code |-> code, message |-> message, details |-> details]

\* json.Marshal(ErrorResponse)
ErrorResponse(message, detail) ==
  [success |-> FALSE, error |-> detail, message |-> message, timestamp |-> NowUnix]

\* json.Marshal(Response): response carries omitempty
Response(message, hasData, data) ==
  IF hasData THEN [success |-> TRUE, response |-> data, message |-> message,
                   timestamp |-> NowUnix]
  ELSE [success |-> TRUE, message |-> message, timestamp |-> NowUnix]

\* the details map of ValidationError: field name to message, a later
\* violation of a field replacing an earlier one
ValidationDetailsMap(err) ==
  LET i == FirstOfKind(err, "validation")
      fes == IF i = 0 THEN <<>> ELSE err[i].Details.items
      last(f) == CHOOSE k \in 1..Len(fes) :
                   fes[k].Field = f /\ \A j \in (k + 1)..Len(fes) : fes[j].Field # f
  IN [f \in {fes[k].Field : k \in 1..Len(fes)} |-> formatValidationError(fes[last(f)])]

LegacyErrorHelpers ==
  {"BadRequest", "ValidationError", "NotFound", "Unauthorized", "Forbidden", "Conflict",
   "InternalError", "RateLimitExceeded"}

LegacySuccessHelpers == {"OK", "Created", "Deleted", "Updated"}

\* the helper called on g; message is its string argument, err the error given
\* to ValidationError, data the payload given to OK and Created
LegacyHelper(helper, g, message, err, data) ==
  CASE helper = "BadRequest" ->
         AbortWithStatusJSON(g, StatusBadRequest, ErrorResponse("Unable to process your request",
           ErrorDetail("BAD_REQUEST", message, <<>>)))
    [] helper = "ValidationError" ->
         AbortWithStatusJSON(g, StatusBadRequest, ErrorResponse("The submitted data is invalid",
           ErrorDetail("VALIDATION_ERROR", "Validation failed", ValidationDetailsMap(err))))
    [] helper = "NotFound" ->
         AbortWithStatusJSON(g, StatusNotFound, ErrorResponse("The requested resource could not be found",
           ErrorDetail("NOT_FOUND", <<message, " not found">>, <<>>)))
    [] helper = "Unauthorized" ->
         AbortWithStatusJSON(g, StatusUnauthorized, ErrorResponse("Please log in to continue",
           ErrorDetail("UNAUTHORIZED",
                       IF message = "" THEN "Authentication required" ELSE message, <<>>)))
    [] helper = "Forbidden" ->
         AbortWithStatusJSON(g, StatusForbidden,
           ErrorResponse("You don't have permission to access this resource",
             ErrorDetail("FORBIDDEN", "Access denied", <<>>)))
    [] helper = "Conflict" ->
         AbortWithStatusJSON(g, StatusConflict, ErrorResponse("This action conflicts with existing data",
           ErrorDetail("CONFLICT", message, <<>>)))
    [] helper = "InternalError" ->
         AbortWithStatusJSON(g, StatusInternalServerError, ErrorResponse("Something went wrong on our end",
           ErrorDetail("INTERNAL_ERROR", "An internal error occurred", <<>>)))
    [] helper = "RateLimitExceeded" ->
         AbortWithStatusJSON(g, StatusTooManyRequests,
           ErrorResponse("Too many requests, please try again later",
             ErrorDetail("RATE_LIMIT_EXCEEDED", "Rate limit exceeded", <<>>)))
    [] helper = "OK" -> GinJSON(g, StatusOK, Response("Request successful", data # "null", data))
    [] helper = "Created" ->
         GinJSON(g, StatusCreated, Response("Resource created successfully", data # "null", data))
    [] helper = "Deleted" -> GinJSON(g, StatusOK, Response("Resource deleted successfully", FALSE, ""))
    [] helper = "Updated" -> GinJSON(g, StatusOK, Response("Resource updated successfully", FALSE, ""))

(***************************************************************************)
(* Items: request bodies, validation, persistence                          *)
(***************************************************************************)
\* validate:"required,min=1,max=255" and validate:"max=1000"
NameMin == 1
NameMax == 255
DescriptionMax == 1000

\* a JSON body: whether it binds, which fields it sends, and the length of the
\* texts sent (0 for a field not sent)
Body(bindOK, hasName, name, hasDescription, description) ==
  [bindOK |-> bindOK, hasName |-> hasName, Name |-> name,
   hasDescription |-> hasDescription, Description |-> description]

NoBody == Body(FALSE, FALSE, 0, FALSE, 0)

NameLengths == {0, NameMin, NameMax + 1}

DescriptionLengths == {0, DescriptionMax, 2 * DescriptionMax}

Bodies ==
  {NoBody}
    \cup { b \in { Body(TRUE, hn, n, hd, d) :
                     hn \in BOOLEAN, n \in NameLengths,
                     hd \in BOOLEAN, d \in DescriptionLengths } :
             /\ ~b.hasName => b.Name = 0
             /\ ~b.hasDescription => b.Description = 0 }

\* c.Validate(&CreateItemRequest): the fields in declaration order, each
\* stopping at its first failing tag
ValidateCreate(body) ==
  (IF body.Name = 0 THEN <<FieldError("Name", "required", "")>>
   ELSE IF body.Name < NameMin THEN <<FieldError("Name", "min", "1")>>
   ELSE IF body.Name > NameMax THEN <<FieldError("Name", "max", "255")>>
   ELSE <<>>)
  \o (IF body.Description > DescriptionMax
      THEN <<FieldError("Description", "max", "1000")>> ELSE <<>>)

\* c.Validate(&UpdateItemRequest): omitempty skips a nil pointer
ValidateUpdate(body) ==
  (IF ~body.hasName THEN <<>>
   ELSE IF body.Name < NameMin THEN <<FieldError("Name", "min", "1")>>
   ELSE IF body.Name > NameMax THEN <<FieldError("Name", "max", "255")>>
   ELSE <<>>)
  \o (IF body.hasDescription /\ body.Description > DescriptionMax
      THEN <<FieldError("Description", "max", "1000")>> ELSE <<>>)

\* the error c.Validate returns
Validate(op, body) ==
  LET violations == IF op = "Create" THEN ValidateCreate(body) ELSE ValidateUpdate(body)
  IN IF violations = <<>> THEN NilErr ELSE ValidationErrors(violations)

\* ids of the rows the items table may hold, and values of the :id parameter
ItemIDs == {"id-1", "id-2"}

IDParams == ItemIDs \cup {"not-a-uuid"}

NoItem == [present |-> FALSE, Name |-> 0, Description |-> 0]

Item(name, description) == [present |-> TRUE, Name |-> name, Description |-> description]

\* gorm.ErrRecordNotFound
ErrRecordNotFound == Opaque("record not found")

\* what the database does to the statements of a request: nothing, fail them,
\* or have an earlier error on the statement, which gorm's AddError chains
\* with the next one through %w
DBFaults == {"none", "down", "chained"}

DBError == Opaque("db down")

\* Service.GetByID -> Repository.FindByID
FindByID(store, id, fault) ==
  IF fault = "down" THEN [store |-> store, item |-> NoItem, err |-> DBError]
  ELSE IF ~store[id].present
  THEN [store |-> store, item |-> NoItem,
        err |-> IF fault = "chained" THEN Wrap("context canceled", ErrRecordNotFound)
                ELSE ErrRecordNotFound]
  ELSE [store |-> store, item |-> store[id], err |-> NilErr]

\* Service.Create -> Repository.Create; the new row takes an unused id
ServiceCreate(store, body, fault) ==
  IF fault = "down" THEN [store |-> store, item |-> NoItem, err |-> DBError]
  ELSE LET id == CHOOSE i \in ItemIDs : ~store[i].present
       IN [store |-> [store EXCEPT ![id] = Item(body.Name, body.Description)],
           item |-> Item(body.Name, body.Description), err |-> NilErr]

\* Repository.UpdateFields: only the fields sent are written
UpdatedItem(item, body) ==
  [item EXCEPT !.Name = IF body.hasName THEN body.Name ELSE @,
               !.Description = IF body.hasDescription THEN body.Description ELSE @]

\* Service.Update: UpdateFields, then GetByID
ServiceUpdate(store, id, body, fault) ==
  IF ~body.hasName /\ ~body.hasDescription THEN FindByID(store, id, fault)
  ELSE IF fault = "down" THEN [store |-> store, item |-> NoItem, err |-> DBError]
  ELSE IF ~store[id].present THEN [store |-> store, item |-> NoItem, err |-> ErrRecordNotFound]
  ELSE FindByID([store EXCEPT ![id] = UpdatedItem(@, body)], id, fault)

\* the error a handler returns for the error of Service.GetByID or
\* Service.Update: err == gorm.ErrRecordNotFound
PersistenceError(err) ==
  IF err = ErrRecordNotFound THEN ErrNotFound("Item not found") ELSE ErrInternalError(err)

(***************************************************************************)
(* The request in flight                                                   *)
(***************************************************************************)
RequestIDs == {"req-1"}

\* no *AppError classified yet
NoAppError == Link("", 0, "", "", NoDetails, NilErr)

\* a query parameter read as a number: whether the URL carries it, whether
\* strconv.Atoi accepts its text, and the number it then gives
QueryInt(present, numeric, value) == [present |-> present, numeric |-> numeric, value |-> value]

NoQueryInt == QueryInt(FALSE, FALSE, 0)

\* the slot of the request in flight; pc "idle" when none is
IdleRequest ==
  [pc |-> "idle", route |-> Route(FALSE, FALSE, <<>>), hdr |-> NoToken, qry |-> NoToken,
   user |-> NoToken, ret |-> NilErr, chainErr |-> NilErr, committedAtReturn |-> FALSE,
   errIn |-> NilErr, errOut |-> NilErr, appErr |-> NoAppError, outcome |-> "",
   rejectedBy |-> "", reason |-> "",
   c |-> NewResponse(""), roleRuns |-> 0, handlerRuns |-> 0,
   ehCalls |-> 0, ehWrites |-> 0,
   op |-> "", id |-> "", body |-> NoBody, persistErr |-> NilErr, serviceCalls |-> 0,
   rowsAffected |-> 0, limit |-> NoQueryInt, offset |-> NoQueryInt,
   svcLimit |-> 0, svcOffset |-> 0]

\* the stage after the one named, on the given route
StageAfter(stage, route) ==
  CASE stage = "zerolog" /\ route.jwt -> "jwt"
    [] stage = "zerolog" /\ ~route.jwt /\ route.role -> "role"
    [] stage = "jwt" /\ route.role -> "role"
    [] OTHER -> "handler"

\* c.Error(err): echo hands err to e.HTTPErrorHandler, which is ErrorHandler
ContextError(r, err, env) ==
  [r EXCEPT !.c = ErrorHandler(err, r.c, env),
            !.errIn = err,
            !.errOut = IF ErrorHandlerSkips(err, r.c) THEN err ELSE ErrorAfterHandler(err),
            !.appErr = IF ErrorHandlerSkips(err, r.c) THEN @ ELSE ClassifyError(err),
            !.ehCalls = @ + 1,
            !.ehWrites = IF ErrorHandlerWrites(err, r.c) THEN @ + 1 ELSE @]

\* what the Zerolog middleware returns to echo for the error next(c) gave it
ZerologReturn(err) == NilErr

\* a Zerolog middleware that logs the error without calling c.Error
Zerolog_DropsError(r, env) ==
  [r EXCEPT !.pc = "done", !.ret = NilErr, !.chainErr = r.ret,
            !.committedAtReturn = r.c.Committed]

\* the Zerolog middleware after next(c) returned err, then echo's ServeHTTP,
\* which hands a non-nil return value of the chain to e.HTTPErrorHandler
Zerolog(r, env) ==
  LET handled == IF r.ret # NilErr THEN ContextError(r, r.ret, env) ELSE r
      back == ZerologReturn(r.ret)
      served1 == IF back # NilErr THEN ContextError(handled, back, env) ELSE handled
  IN [served1 EXCEPT !.pc = "done", !.ret = back, !.chainErr = r.ret,
                     !.committedAtReturn = r.c.Committed]

\* middleware.Recover() with its default config: the recovered panic goes to
\* c.Error and the middleware returns nil
Recover(r, env) ==
  [ContextError(r, r.ret, env) EXCEPT !.pc = "zerolog", !.ret = NilErr]

\* statuses the success helpers OK, Created and NoContent write
SuccessStatuses == {StatusOK, StatusCreated, StatusNoContent}

\* values handlers panic with: Recover keeps an error value as it is and turns
\* any other value into fmt.Errorf("%v", r)
PanicErrors ==
  {Opaque("runtime error: invalid memory address"), ErrNotFound("Item not found"),
   NewAppError(0, "", "Item not found", NoDetails, NilErr)}

\* the most requests handled at the same time
MaxInFlight == 2

Slots == 1..MaxInFlight

\* what the handler of a request does once the chain reaches it
HandlerChoice(kind, status, err) == [kind |-> kind, status |-> status, err |-> err]

NoChoice == HandlerChoice("", 0, NilErr)

\* a request handled next to others: its state in the chain, what its handler
\* will do, and the row it asked for as the table held it when it arrived
Slot(req, choice, seen) == [req |-> req, choice |-> choice, seen |-> seen]

IdleSlot == Slot(IdleRequest, NoChoice, NoItem)

\* no function of the packages was called on its own yet
NoCall == [fn |-> ""]

\* the error c.JSON returns when the connection breaks after the header went out
WriteError == Opaque("write: broken pipe")

(***************************************************************************)
(* Actions                                                                 *)
(***************************************************************************)
Init ==
  /\ currentEnv = Production
  /\ phase = "boot"
  /\ cur = IdleRequest
  /\ served = 0
  /\ lastRejected = [set |-> FALSE, reason |-> "", c |-> NewResponse("")]
  /\ call = NoCall
  /\ itemsTable = [id \in ItemIDs |-> NoItem]
  /\ slots = [i \in Slots |-> IdleSlot]

\* a SetEnv that is also called while the server is serving
SetEnv_WhileServing(env) ==
  /\ currentEnv' = SetEnvResult(env)
  /\ UNCHANGED <<phase, cur, served, lastRejected, call, itemsTable, slots>>

\* main: config.SetEnv(cfg.Server.Env) before the server starts
SetEnv(env) ==
  /\ phase = "boot"
  /\ currentEnv' = SetEnvResult(env)
  /\ UNCHANGED <<phase, cur, served, lastRejected, call, itemsTable, slots>>

\* main: srv.Start
Start ==
  /\ phase = "boot"
  /\ phase' = "serving"
  /\ UNCHANGED <<currentEnv, cur, served, lastRejected, call, itemsTable, slots>>

\* a request enters the chain: RequestID sets the id, Zerolog calls next
Arrive(route, hdr, qry, rid) ==
  /\ phase = "serving"
  /\ cur.pc = "idle"
  /\ served < MaxRequests
  /\ cur' = [IdleRequest EXCEPT !.pc = StageAfter("zerolog", route), !.route = route,
                                !.hdr = hdr, !.qry = qry, !.c = NewResponse(rid)]
  /\ UNCHANGED <<currentEnv, phase, served, lastRejected, call, itemsTable, slots>>

\* the JWTMiddleware stage
JWTStage ==
  /\ cur.pc = "jwt"
  /\ LET v == JWTMiddleware(cur.hdr, cur.qry)
     IN cur' = IF v.next
               THEN [cur EXCEPT !.user = v.user, !.pc = StageAfter("jwt", cur.route)]
               ELSE [cur EXCEPT !.ret = v.err, !.pc = "zerolog",
                                !.rejectedBy = "jwt", !.reason = v.reason]
  /\ UNCHANGED <<currentEnv, phase, served, lastRejected, call, itemsTable, slots>>

\* a RequireRole stage that drops the claims of a request it denies
RoleStage_DropsClaims ==
  /\ cur.pc = "role"
  /\ LET v == RequireRole(cur.route.allowed, cur.user)
     IN cur' = IF v.next
               THEN [cur EXCEPT !.roleRuns = @ + 1, !.pc = "handler"]
               ELSE [cur EXCEPT !.roleRuns = @ + 1, !.ret = v.err, !.pc = "zerolog",
                                !.rejectedBy = "role", !.user = NoToken]
  /\ UNCHANGED <<currentEnv, phase, served, lastRejected, call, itemsTable, slots>>

\* the RequireRole stage
RoleStage ==
  /\ cur.pc = "role"
  /\ LET v == RequireRole(cur.route.allowed, cur.user)
     IN cur' = IF v.next
               THEN [cur EXCEPT !.roleRuns = @ + 1, !.pc = "handler"]
               ELSE [cur EXCEPT !.roleRuns = @ + 1, !.ret = v.err, !.pc = "zerolog",
                                !.rejectedBy = "role"]
  /\ UNCHANGED <<currentEnv, phase, served, lastRejected, call, itemsTable, slots>>

\* the handler answers through a success helper
HandlerSucceeds(status) ==
  /\ cur.pc = "handler"
  /\ cur' = [cur EXCEPT !.handlerRuns = @ + 1, !.outcome = "success",
                        !.c = respondSuccess(cur.c, status, "ok", "data"),
                        !.pc = "zerolog"]
  /\ UNCHANGED <<currentEnv, phase, served, lastRejected, call, itemsTable, slots>>

\* the handler returns an error without writing
HandlerFails(err) ==
  /\ cur.pc = "handler"
  /\ cur' = [cur EXCEPT !.handlerRuns = @ + 1, !.outcome = "error",
                        !.ret = err, !.pc = "zerolog"]
  /\ UNCHANGED <<currentEnv, phase, served, lastRejected, call, itemsTable, slots>>

\* the handler's success helper commits the response and c.JSON then fails on
\* the connection: the handler returns that error
HandlerWriteFails(status) ==
  /\ cur.pc = "handler"
  /\ cur' = [cur EXCEPT !.handlerRuns = @ + 1, !.outcome = "writefail",
                        !.c = respondSuccess(cur.c, status, "ok", "data"),
                        !.ret = WriteError, !.pc = "zerolog"]
  /\ UNCHANGED <<currentEnv, phase, served, lastRejected, call, itemsTable, slots>>

\* the handler panics with an error value before writing
HandlerPanics(err) ==
  /\ cur.pc = "handler"
  /\ cur' = [cur EXCEPT !.handlerRuns = @ + 1, !.outcome = "panic",
                        !.ret = err, !.pc = "recover"]
  /\ UNCHANGED <<currentEnv, phase, served, lastRejected, call, itemsTable, slots>>

\* middleware.Recover() catches the panic
RecoverStage ==
  /\ cur.pc = "recover"
  /\ cur' = Recover(cur, currentEnv)
  /\ UNCHANGED <<currentEnv, phase, served, lastRejected, call, itemsTable, slots>>

\* the chain unwinds into Zerolog and echo finishes the request
ZerologStage ==
  /\ cur.pc = "zerolog"
  /\ cur' = Zerolog(cur, currentEnv)
  /\ UNCHANGED <<currentEnv, phase, served, lastRejected, call, itemsTable, slots>>

\* the request is over; the next one may arrive
Finish ==
  /\ cur.pc = "done"
  /\ cur' = IdleRequest
  /\ served' = served + 1
  /\ lastRejected' = IF cur.rejectedBy = "jwt"
                     THEN [set |-> TRUE, reason |-> cur.reason, c |-> cur.c]
                     ELSE lastRejected
  /\ UNCHANGED <<currentEnv, phase, call, itemsTable, slots>>

Next ==
  \/ \E env \in EnvArgs : SetEnv(env)
  \/ Start
  \/ \E route \in Routes, hdr \in HeaderCredentials, qry \in QueryCredentials,
        rid \in RequestIDs :
       Arrive(route, hdr, qry, rid)
  \/ JWTStage
  \/ RoleStage
  \/ \E status \in SuccessStatuses : HandlerWriteFails(status)
  \/ \E status \in SuccessStatuses : HandlerSucceeds(status)
  \/ \E err \in AllErrors : HandlerFails(err)
  \/ \E err \in PanicErrors : HandlerPanics(err)
  \/ RecoverStage
  \/ ZerologStage
  \/ Finish

Spec == Init /\ [][Next]_vars

(***************************************************************************)
(* The item handlers behind the chain                                      *)
(***************************************************************************)
\* the handler returns err to the chain
HandlerReturns(r, err) ==
  [r EXCEPT !.handlerRuns = @ + 1, !.outcome = "error", !.ret = err, !.pc = "zerolog"]

\* the handler answers through OK or Created
HandlerResponds(r, status, message, data) ==
  [r EXCEPT !.handlerRuns = @ + 1, !.outcome = "success",
            !.c = respondSuccess(r.c, status, message, data), !.pc = "zerolog"]

\* the service was called and gave err
ServiceGave(r, err) == [r EXCEPT !.serviceCalls = @ + 1, !.persistErr = err]

\* a request for /api/v1/items enters the chain; the routes carry no JWT
ArriveItem(op, id, body, rid) ==
  /\ phase = "serving"
  /\ cur.pc = "idle"
  /\ served < MaxRequests
  /\ op = "Create" => (id = "" /\ \E i \in ItemIDs : ~itemsTable[i].present)
  /\ op = "GetByID" => (id \in IDParams /\ body = NoBody)
  /\ op = "Update" => id \in IDParams
  /\ op = "Delete" => (id \in IDParams /\ body = NoBody)
  /\ cur' = [IdleRequest EXCEPT !.pc = StageAfter("zerolog", IdleRequest.route),
                                !.op = op, !.id = id, !.body = body,
                                !.c = NewResponse(rid)]
  /\ UNCHANGED <<currentEnv, phase, served, lastRejected, call, itemsTable, slots>>

\* Handler.Create
Create(fault) ==
  /\ cur.pc = "handler"
  /\ cur.op = "Create"
  /\ LET r == ServiceCreate(itemsTable, cur.body, fault)
     IN IF ~cur.body.bindOK
        THEN /\ cur' = HandlerReturns(cur, ErrBadRequest("Invalid request body", NoDetails))
             /\ UNCHANGED itemsTable
        ELSE IF Validate("Create", cur.body) # NilErr
        THEN /\ cur' = HandlerReturns(cur, Validate("Create", cur.body))
             /\ UNCHANGED itemsTable
        ELSE IF r.err # NilErr
        THEN /\ cur' = HandlerReturns(ServiceGave(cur, r.err), ErrInternalError(r.err))
             /\ itemsTable' = r.store
        ELSE /\ cur' = HandlerResponds(ServiceGave(cur, NilErr), StatusCreated,
                                       "Item created successfully", r.item)
             /\ itemsTable' = r.store
  /\ UNCHANGED <<currentEnv, phase, served, lastRejected, call, slots>>

\* Handler.GetByID
GetByID(fault) ==
  /\ cur.pc = "handler"
  /\ cur.op = "GetByID"
  /\ IF cur.id \notin ItemIDs
     THEN cur' = HandlerReturns(cur, ErrBadRequest("Invalid item ID", NoDetails))
     ELSE LET r == FindByID(itemsTable, cur.id, fault)
          IN cur' = IF r.err # NilErr
                    THEN HandlerReturns(ServiceGave(cur, r.err), PersistenceError(r.err))
                    ELSE HandlerResponds(ServiceGave(cur, NilErr), StatusOK,
                                         "Item retrieved successfully", r.item)
  /\ UNCHANGED <<currentEnv, phase, served, lastRejected, call, itemsTable, slots>>

\* Handler.Update
Update(fault) ==
  /\ cur.pc = "handler"
  /\ cur.op = "Update"
  /\ IF cur.id \notin ItemIDs
     THEN /\ cur' = HandlerReturns(cur, ErrBadRequest("Invalid item ID", NoDetails))
          /\ UNCHANGED itemsTable
     ELSE IF ~cur.body.bindOK
     THEN /\ cur' = HandlerReturns(cur, ErrBadRequest("Invalid request body", NoDetails))
          /\ UNCHANGED itemsTable
     ELSE IF Validate("Update", cur.body) # NilErr
     THEN /\ cur' = HandlerReturns(cur, Validate("Update", cur.body))
          /\ UNCHANGED itemsTable
     ELSE LET r == ServiceUpdate(itemsTable, cur.id, cur.body, fault)
          IN /\ cur' = IF r.err # NilErr
                       THEN HandlerReturns(ServiceGave(cur, r.err), PersistenceError(r.err))
                       ELSE HandlerResponds(ServiceGave(cur, NilErr), StatusOK,
                                            "Item updated successfully", r.item)
             /\ itemsTable' = r.store
  /\ UNCHANGED <<currentEnv, phase, served, lastRejected, call, slots>>

\* Service.Delete -> Repository.Delete: the rows removed and the error
RepositoryDelete(store, id, fault) ==
  IF fault = "down" THEN [store |-> store, rows |-> 0, err |-> DBError]
  ELSE [store |-> [store EXCEPT ![id] = NoItem],
        rows |-> IF store[id].present THEN 1 ELSE 0, err |-> NilErr]

\* Handler.Delete: only the error of the service decides the answer
Delete(fault) ==
  /\ cur.pc = "handler"
  /\ cur.op = "Delete"
  /\ IF cur.id \notin ItemIDs
     THEN /\ cur' = HandlerReturns(cur, ErrBadRequest("Invalid item ID", NoDetails))
          /\ UNCHANGED itemsTable
     ELSE LET r == RepositoryDelete(itemsTable, cur.id, fault)
              called == [ServiceGave(cur, r.err) EXCEPT !.rowsAffected = r.rows]
          IN /\ cur' = IF r.err # NilErr
                       THEN HandlerReturns(called, ErrInternalError(r.err))
                       ELSE HandlerResponds(called, StatusNoContent, "", "null")
             /\ itemsTable' = r.store
  /\ UNCHANGED <<currentEnv, phase, served, lastRejected, call, slots>>

\* values of ?limit= and ?offset=: absent, not a number, negative, zero, in
\* range, at and above the cap
LimitParams ==
  {NoQueryInt, QueryInt(TRUE, FALSE, 0), QueryInt(TRUE, TRUE, -5), QueryInt(TRUE, TRUE, 0),
   QueryInt(TRUE, TRUE, 50), QueryInt(TRUE, TRUE, 100), QueryInt(TRUE, TRUE, 101)}

OffsetParams == {NoQueryInt, QueryInt(TRUE, FALSE, 0), QueryInt(TRUE, TRUE, -1), QueryInt(TRUE, TRUE, 5)}

\* a GET /api/v1/items enters the chain
ArriveList(limit, offset, rid) ==
  /\ phase = "serving"
  /\ cur.pc = "idle"
  /\ served < MaxRequests
  /\ cur' = [IdleRequest EXCEPT !.pc = StageAfter("zerolog", IdleRequest.route),
                                !.op = "GetAll", !.limit = limit, !.offset = offset,
                                !.c = NewResponse(rid)]
  /\ UNCHANGED <<currentEnv, phase, served, lastRejected, call, itemsTable, slots>>

\* limit := 20
GetAllLimit(limit) == 20

\* offset := 0
GetAllOffset(offset) == 0

\* Handler.GetAll
GetAll(fault) ==
  /\ cur.pc = "handler"
  /\ cur.op = "GetAll"
  /\ LET err == IF fault = "down" THEN DBError ELSE NilErr
         called == [ServiceGave(cur, err) EXCEPT !.svcLimit = GetAllLimit(cur.limit),
                                                 !.svcOffset = GetAllOffset(cur.offset)]
     IN cur' = IF err # NilErr
               THEN HandlerReturns(called, ErrInternalError(err))
               ELSE HandlerResponds(called, StatusOK, "Items retrieved successfully", "items")
  /\ UNCHANGED <<currentEnv, phase, served, lastRejected, call, itemsTable, slots>>

NextItems ==
  \/ \E env \in EnvArgs : SetEnv(env)
  \/ Start
  \/ \E op \in {"Create", "GetByID", "Update", "Delete"}, id \in IDParams \cup {""},
        body \in Bodies,
        rid \in RequestIDs :
       ArriveItem(op, id, body, rid)
  \/ \E fault \in DBFaults : Create(fault)
  \/ \E fault \in DBFaults : GetByID(fault)
  \/ \E fault \in DBFaults : Update(fault)
  \/ \E fault \in {"none", "down"} : Delete(fault)
  \/ \E limit \in LimitParams, offset \in OffsetParams, rid \in RequestIDs :
       ArriveList(limit, offset, rid)
  \/ \E fault \in {"none", "down"} : GetAll(fault)
  \/ ZerologStage
  \/ Finish

\* requests for the item routes, one after the other
SpecItems == Init /\ [][NextItems]_vars

(***************************************************************************)
(* Requests handled at the same time                                       *)
(***************************************************************************)
\* JWTMiddleware on the request r
JWTStep(r) ==
  LET v == JWTMiddleware(r.hdr, r.qry)
  IN IF v.next
     THEN [r EXCEPT !.user = v.user, !.pc = StageAfter("jwt", r.route)]
     ELSE [r EXCEPT !.ret = v.err, !.pc = "zerolog", !.rejectedBy = "jwt",
                    !.reason = v.reason]

\* RequireRole on the request r
RoleStep(r) ==
  LET v == RequireRole(r.route.allowed, r.user)
  IN IF v.next
     THEN [r EXCEPT !.roleRuns = @ + 1, !.pc = "handler"]
     ELSE [r EXCEPT !.roleRuns = @ + 1, !.ret = v.err, !.pc = "zerolog",
                    !.rejectedBy = "role"]

\* the handler of r answers through a success helper or returns an error
HandlerStep(r, choice) ==
  IF choice.kind = "success" THEN HandlerResponds(r, choice.status, "ok", "data")
  ELSE HandlerReturns(r, choice.err)

\* the request as it enters the chain
Arrival(route, hdr, qry, rid) ==
  [IdleRequest EXCEPT !.pc = StageAfter("zerolog", route), !.route = route,
                      !.hdr = hdr, !.qry = qry, !.c = NewResponse(rid)]

\* the whole chain run on one request with nothing else going on
Solo(route, hdr, qry, rid, choice, env) ==
  LET r0 == Arrival(route, hdr, qry, rid)
      r1 == IF r0.pc = "jwt" THEN JWTStep(r0) ELSE r0
      r2 == IF r1.pc = "role" THEN RoleStep(r1) ELSE r1
      r3 == IF r2.pc = "handler" THEN HandlerStep(r2, choice) ELSE r2
  IN Zerolog(r3, env)

ConcRoutes == {Route(FALSE, FALSE, <<>>), Route(TRUE, TRUE, <<"admin">>)}

ConcCredentials ==
  {NoToken, Token("wellformed", "good", FALSE, "admin", "access"),
   Token("wellformed", "good", FALSE, "viewer", "access")}

ConcChoices ==
  {HandlerChoice("success", StatusOK, NilErr), HandlerChoice("error", 0, Opaque("db down"))}

\* echo starts a goroutine's worth of work for a request in a free slot
ConcArrive(i, route, hdr, rid, choice) ==
  /\ phase = "serving"
  /\ slots[i].req.pc = "idle"
  /\ slots' = [slots EXCEPT ![i] = Slot(Arrival(route, hdr, NoToken, rid), choice, NoItem)]
  /\ UNCHANGED <<currentEnv, phase, cur, served, lastRejected, call, itemsTable>>

ConcJWT(i) ==
  /\ slots[i].req.pc = "jwt"
  /\ slots' = [slots EXCEPT ![i].req = JWTStep(@)]
  /\ UNCHANGED <<currentEnv, phase, cur, served, lastRejected, call, itemsTable>>

ConcRole(i) ==
  /\ slots[i].req.pc = "role"
  /\ slots' = [slots EXCEPT ![i].req = RoleStep(@)]
  /\ UNCHANGED <<currentEnv, phase, cur, served, lastRejected, call, itemsTable>>

ConcHandler(i) ==
  /\ slots[i].req.pc = "handler"
  /\ slots[i].req.op = ""
  /\ slots' = [slots EXCEPT ![i].req = HandlerStep(@, slots[i].choice)]
  /\ UNCHANGED <<currentEnv, phase, cur, served, lastRejected, call, itemsTable>>

\* the chain of request i unwinds into Zerolog, which reads config.IsDev()
\* through ErrorHandler
ConcZerolog(i) ==
  /\ slots[i].req.pc = "zerolog"
  /\ slots' = [slots EXCEPT ![i].req = Zerolog(@, currentEnv)]
  /\ UNCHANGED <<currentEnv, phase, cur, served, lastRejected, call, itemsTable>>

NextConc ==
  \/ \E env \in EnvArgs : SetEnv(env)
  \/ Start
  \/ \E i \in Slots, route \in ConcRoutes, hdr \in ConcCredentials, rid \in RequestIDs,
        choice \in ConcChoices : ConcArrive(i, route, hdr, rid, choice)
  \/ \E i \in Slots : ConcJWT(i)
  \/ \E i \in Slots : ConcRole(i)
  \/ \E i \in Slots : ConcHandler(i)
  \/ \E i \in Slots : ConcZerolog(i)

\* requests handled at the same time, their steps interleaved
SpecConc == Init /\ [][NextConc]_vars

(***************************************************************************)
(* Updates of one item handled at the same time                            *)
(***************************************************************************)
\* bodies of the concurrent PUT requests: only a name, only a description, both
UpdateBodies ==
  {Body(TRUE, TRUE, NameMax, FALSE, 0), Body(TRUE, FALSE, 0, TRUE, DescriptionMax),
   Body(TRUE, TRUE, NameMin + 1, TRUE, DescriptionMax - 1)}

\* the row every concurrent update starts from
SeedBody == Body(TRUE, TRUE, NameMin, TRUE, 0)

\* Service.Update on a read-modify-write repository: the row read when the
\* request started is changed in memory and written back whole (db.Save)
UpdateFields_SaveStale(store, s) ==
  IF ~store[s.req.id].present THEN [store |-> store, err |-> ErrRecordNotFound]
  ELSE [store |-> [store EXCEPT ![s.req.id] = UpdatedItem(s.seen, s.req.body)],
        err |-> NilErr]

\* Repository.UpdateFields for the request in slot s: one UPDATE statement
\* that writes only the fields sent, on the row as the table holds it
UpdateFields(store, s) ==
  IF ~store[s.req.id].present THEN [store |-> store, err |-> ErrRecordNotFound]
  ELSE [store |-> [store EXCEPT ![s.req.id] = UpdatedItem(@, s.req.body)],
        err |-> NilErr]

\* an earlier POST left a row in the table
ConcSeed ==
  /\ phase = "serving"
  /\ \A i \in Slots : slots[i].req.pc = "idle"
  /\ \E id \in ItemIDs : ~itemsTable[id].present
  /\ itemsTable' = ServiceCreate(itemsTable, SeedBody, "none").store
  /\ UNCHANGED <<currentEnv, phase, cur, served, lastRejected, call, slots>>

\* a PUT /api/v1/items/:id passed Bind and Validate in a free slot
ConcUpdateArrive(i, id, body, rid) ==
  /\ phase = "serving"
  /\ slots[i].req.pc = "idle"
  /\ Validate("Update", body) = NilErr
  /\ slots' = [slots EXCEPT ![i] =
                 Slot([IdleRequest EXCEPT !.pc = "handler", !.op = "Update", !.id = id,
                                          !.body = body, !.c = NewResponse(rid)],
                      NoChoice, itemsTable[id])]
  /\ UNCHANGED <<currentEnv, phase, cur, served, lastRejected, call, itemsTable>>

\* Service.Update of request i reaches s.repo.UpdateFields
ConcUpdateFields(i) ==
  /\ slots[i].req.pc = "handler"
  /\ slots[i].req.op = "Update"
  /\ LET r == UpdateFields(itemsTable, slots[i])
     IN /\ itemsTable' = r.store
        /\ slots' = [slots EXCEPT ![i].req =
                       IF r.err # NilErr
                       THEN HandlerReturns(ServiceGave(@, r.err), PersistenceError(r.err))
                       ELSE [@ EXCEPT !.pc = "fetch"]]
  /\ UNCHANGED <<currentEnv, phase, cur, served, lastRejected, call>>

\* Service.Update of request i reaches s.GetByID and Handler.Update answers
ConcUpdateFetch(i) ==
  /\ slots[i].req.pc = "fetch"
  /\ LET r == FindByID(itemsTable, slots[i].req.id, "none")
     IN slots' = [slots EXCEPT ![i].req =
                    IF r.err # NilErr
                    THEN HandlerReturns(ServiceGave(@, r.err), PersistenceError(r.err))
                    ELSE HandlerResponds(ServiceGave(@, NilErr), StatusOK,
                                         "Item updated successfully", r.item)]
  /\ UNCHANGED <<currentEnv, phase, cur, served, lastRejected, call, itemsTable>>

NextUpdates ==
  \/ Start
  \/ ConcSeed
  \/ \E i \in Slots, id \in ItemIDs, body \in UpdateBodies, rid \in RequestIDs :
       ConcUpdateArrive(i, id, body, rid)
  \/ \E i \in Slots : ConcUpdateFields(i)
  \/ \E i \in Slots : ConcUpdateFetch(i)
  \/ \E i \in Slots : ConcZerolog(i)

\* PUT requests on the items table, their statements interleaved
SpecUpdates == Init /\ [][NextUpdates]_vars

(***************************************************************************)
(* SetEnv called again and again                                           *)
(***************************************************************************)
\* a caller sets the mode; args keeps the arguments of the calls so far
SetEnvCall(env) ==
  /\ call.fn \in {"", "SetEnv"}
  /\ call.fn = "SetEnv" => Len(call.args) < MaxSetEnvCalls
  /\ currentEnv' = SetEnvResult(env)
  /\ call' = [fn |-> "SetEnv",
              args |-> IF call.fn = "SetEnv" THEN Append(call.args, env) ELSE <<env>>]
  /\ UNCHANGED <<phase, cur, served, lastRejected, itemsTable, slots>>

NextEnv == \E env \in EnvArgs : SetEnvCall(env)

\* nothing but calls of SetEnv
SpecEnv == Init /\ [][NextEnv]_vars

(***************************************************************************)
(* Functions of the packages called on their own                           *)
(***************************************************************************)
\* a token-refresh endpoint calls ValidateRefreshToken
ValidateRefreshTokenCall(tok, secretKey) ==
  /\ call' = [fn |-> "ValidateRefreshToken", tokenString |-> tok, secretKey |-> secretKey,
              out |-> ValidateRefreshToken(tok, secretKey)]
  /\ UNCHANGED <<currentEnv, phase, cur, served, lastRejected, itemsTable, slots>>

\* a handler calls GetClaims on its context
GetClaimsCall(user) ==
  /\ call' = [fn |-> "GetClaims", user |-> user, out |-> GetClaims(user)]
  /\ UNCHANGED <<currentEnv, phase, cur, served, lastRejected, itemsTable, slots>>

\* arguments the constructors are called with
ConstructMessages == {"Item not found", "Email already registered"}

ConstructValidations == {<<>>, <<ValidationError("Name", <<"This field is required">>)>>}

\* a caller builds an error with one of the constructors
ConstructCall(ctor, message, details, validation, err) ==
  /\ call' = [fn |-> "Construct", ctor |-> ctor, message |-> message, details |-> details,
              validation |-> validation, err |-> err,
              out |-> Construct(ctor, message, details, validation, err)]
  /\ UNCHANGED <<currentEnv, phase, cur, served, lastRejected, itemsTable, slots>>

\* the longest validator.ValidationErrors drawn
MaxViolations == 2

ViolationSamples ==
  {FieldError("Name", "required", ""), FieldError("Name", "min", "1"),
   FieldError("Description", "max", "1000"), FieldError("Email", "email", "")}

SeqsUpTo(S, n) == UNION { [1..k -> S] : k \in 0..n }

\* validation failures, bare and wrapped, and errors of other shapes
TranslatorInputs ==
  { ValidationErrors(fs) : fs \in SeqsUpTo(ViolationSamples, MaxViolations) }
    \cup { Wrap("ctx", ValidationErrors(fs)) : fs \in SeqsUpTo(ViolationSamples, MaxViolations) }
    \cup {NilErr, Opaque("db down"), ErrNotFound("Item not found"),
          HTTPError(404, "Not Found", NilErr)}

ToValidationErrorsCall(err) ==
  /\ call' = [fn |-> "ToValidationErrors", err |-> err, out |-> ToValidationErrors(err)]
  /\ UNCHANGED <<currentEnv, phase, cur, served, lastRejected, itemsTable, slots>>

\* tags with and without a case in the tables, and tag parameters
Tags == TableTags \cup {"indian_phone", "court_id", "datetime", "eqfield"}

Params == {"", "3", "red green"}

FieldNames == {"Name", "Email"}

FieldErrors == { FieldError(f, t, p) : f \in FieldNames, t \in Tags, p \in Params }

validationMessageCall(e) ==
  /\ call' = [fn |-> "validationMessage", e |-> e, out |-> validationMessage(e)]
  /\ UNCHANGED <<currentEnv, phase, cur, served, lastRejected, itemsTable, slots>>

formatValidationErrorCall(e) ==
  /\ call' = [fn |-> "formatValidationError", e |-> e, out |-> formatValidationError(e)]
  /\ UNCHANGED <<currentEnv, phase, cur, served, lastRejected, itemsTable, slots>>

\* statuses, messages and payloads respondSuccess is called with
RespondStatuses == {StatusOK, StatusCreated, StatusAccepted, StatusNoContent}

RespondMessages == {"", "Item created successfully"}

RespondData == {"null", "item"}

\* contexts respondSuccess may meet: fresh, or committed by an earlier write
RespondContexts ==
  { NewResponse(rid) : rid \in RequestIDs \cup {""} }
    \cup { NoContentWrite(NewResponse(rid), StatusNoContent) : rid \in RequestIDs }

\* OK, Created, Accepted and NoContent all go through respondSuccess
respondSuccessCall(c, status, message, data) ==
  /\ call' = [fn |-> "respondSuccess", c |-> c, status |-> status, message |-> message,
              data |-> data, out |-> respondSuccess(c, status, message, data),
              ret |-> respondSuccessErr(c, status, message, data)]
  /\ UNCHANGED <<currentEnv, phase, cur, served, lastRejected, itemsTable, slots>>

\* error values beyond those the handlers of this repository return
ExoticErrors ==
  {TypedNilAppError, Wrap("ctx", TypedNilAppError),
   HTTPErrorValue(400, "errormessage", "boom"), HTTPErrorValue(400, "valuemessage", "42"),
   NewAppError(400, "ERR_BAD_REQUEST", "Bad input", UnserializableDetails, NilErr),
   NewAppError(42, "ERR_CUSTOM", "Custom", NoDetails, NilErr),
   HTTPError(0, "No code", NilErr)}

\* echo hands an error to e.HTTPErrorHandler
ErrorHandlerCall(err, c, env) ==
  /\ call' = [fn |-> "ErrorHandler", err |-> err, c |-> c, env |-> env,
              out |-> ErrorHandler(err, c, env),
              raised |-> ErrorHandlerRaises(err, c)]
  /\ UNCHANGED <<currentEnv, phase, cur, served, lastRejected, itemsTable, slots>>

\* errors ValidationError is given: none, one of another shape, and a
\* validation failure naming one field twice
LegacyErrors ==
  {NilErr, Opaque("db down"),
   ValidationErrors(<<FieldError("Name", "required", ""), FieldError("Email", "email", ""),
                      FieldError("Name", "max", "255")>>)}

LegacyMessages == {"", "Item"}

\* the first of two Gin handlers calls a helper and returns; gin goes on with
\* the chain
LegacyHelperCall(helper, message, err, data) ==
  /\ helper \notin {"BadRequest", "NotFound", "Unauthorized", "Conflict"} => message = ""
  /\ helper # "ValidationError" => err = NilErr
  /\ helper \notin {"OK", "Created"} => data = "null"
  /\ call' = [fn |-> "LegacyHelper", helper |-> helper, message |-> message, err |-> err,
              data |-> data,
              out |-> GinNext(LegacyHelper(helper, NewGinContext, message, err, data))]
  /\ UNCHANGED <<currentEnv, phase, cur, served, lastRejected, itemsTable, slots>>

NextFn ==
  \/ \E helper \in LegacyErrorHelpers \cup LegacySuccessHelpers, message \in LegacyMessages,
        err \in LegacyErrors, data \in RespondData :
       LegacyHelperCall(helper, message, err, data)
  \/ \E err \in AllErrors \cup ExoticErrors \cup {NilErr}, c \in RespondContexts,
        env \in {Development, Production} : ErrorHandlerCall(err, c, env)
  \/ \E c \in RespondContexts, status \in RespondStatuses, message \in RespondMessages,
        data \in RespondData : respondSuccessCall(c, status, message, data)
  \/ \E ctor \in Constructors, message \in ConstructMessages, details \in DetailValues,
        validation \in ConstructValidations, err \in Causes :
       ConstructCall(ctor, message, details, validation, err)
  \/ \E err \in TranslatorInputs : ToValidationErrorsCall(err)
  \/ \E e \in FieldErrors : validationMessageCall(e)
  \/ \E e \in FieldErrors : formatValidationErrorCall(e)
  \/ \E user \in ContextValues : GetClaimsCall(user)
  \/ \E tok \in TokenStrings, secretKey \in Secrets : ValidateRefreshTokenCall(tok, secretKey)

\* the functions applied to every input of their bounded domains
SpecFn == Init /\ [][NextFn]_vars

TypeOK ==
  /\ currentEnv \in {Development, Production}
  /\ phase \in {"boot", "serving"}
  /\ served \in 0..MaxRequests
  /\ cur.pc \in {"idle", "jwt", "role", "handler", "recover", "zerolog", "done"}

(***************************************************************************)
(* Properties of ErrorHandler                                              *)
(***************************************************************************)
\* ErrorHandler wrote the envelope of the request in flight
EnvelopeWritten == cur.ehWrites = 1 /\ Len(cur.c.Bodies) = 1

\* the error envelope of the request in flight
Envelope == cur.c.Bodies[1]

\* the chain handed to ErrorHandler holds an AppError
HoldsAppError(err) == \E i \in 1..Len(err) : err[i].kind = "app"

\* the chain handed to ErrorHandler holds a framework error
HoldsHTTPError(err) == \E i \in 1..Len(err) : err[i].kind = "http"

\* the AppError on the chain (chains end at an AppError: it has no Unwrap)
TheAppError(err) == err[Len(err)]

\* C1: an error that is or wraps an AppError is answered with that AppError's
\* status, code, message and details, a StatusCode of 0 replaced by 500 and an
\* empty Code by "ERR_UNKNOWN"
C1_AppErrorUsedAsIs ==
  (EnvelopeWritten /\ HoldsAppError(cur.errIn)) =>
    LET a == TheAppError(cur.errIn)
    IN /\ cur.c.Status = IF a.StatusCode = 0 THEN 500 ELSE a.StatusCode
       /\ Envelope.success = FALSE
       /\ Envelope.error_code = IF a.Code = "" THEN "ERR_UNKNOWN" ELSE a.Code
       /\ Envelope.message = a.Message
       /\ IF a.Details = NoDetails THEN "details" \notin DOMAIN Envelope
          ELSE Envelope.details = a.Details

\* a wrapped AppError with StatusCode 0 and Code "" was answered 500 / ERR_UNKNOWN
C1_Witness ==
  /\ EnvelopeWritten
  /\ Len(cur.errIn) = 2
  /\ TheAppError(cur.errIn).kind = "app"
  /\ TheAppError(cur.errIn).StatusCode = 0
  /\ TheAppError(cur.errIn).Code = ""
  /\ TheAppError(cur.errIn).Details # NoDetails
  /\ cur.c.Status = 500
  /\ Envelope.error_code = "ERR_UNKNOWN"

\* C2: an error that is neither an AppError nor a framework error is answered
\* 500 / ERR_INTERNAL / "Something went wrong", the original error is the
\* AppError's cause and the body is the same whatever the error's text
C2_OpaqueBecomesInternal ==
  (EnvelopeWritten /\ ~HoldsAppError(cur.errIn) /\ ~HoldsHTTPError(cur.errIn)) =>
    /\ cur.c.Status = 500
    /\ cur.appErr.Err = cur.errIn
    /\ Envelope \in { errorResponse("Something went wrong", "ERR_INTERNAL",
                                    cur.c.RequestID, NoDetails, st) :
                        st \in {"", DebugStackText} }
    /\ \A i \in 1..Len(cur.errIn) : Envelope.message # cur.errIn[i].Message
    /\ "details" \notin DOMAIN Envelope

\* a wrapped opaque error returned by a handler was answered
C2_Witness ==
  /\ EnvelopeWritten
  /\ cur.outcome = "error"
  /\ cur.errIn = Wrap("ctx", Opaque("db down"))
  /\ cur.c.Status = 500
  /\ Envelope.error_code = "ERR_INTERNAL"

\* C3 as stated: a framework error that is not an AppError keeps its status
\* and message and is answered with error_code "ERR_FRAMEWORK"
C3_FrameworkCodeAsStated ==
  (EnvelopeWritten /\ ~HoldsAppError(cur.errIn) /\ HoldsHTTPError(cur.errIn)) =>
    LET h == cur.errIn[AsHTTPError(cur.errIn)]
    IN /\ cur.c.Status = h.StatusCode
       /\ Envelope.message = h.Message
       /\ Envelope.error_code = "ERR_FRAMEWORK"

\* C3 amended: a framework error that is not an AppError keeps its status and
\* message and is answered with error_code "ERR_ECHO"
C3_FrameworkErrorKept ==
  (EnvelopeWritten /\ ~HoldsAppError(cur.errIn) /\ HoldsHTTPError(cur.errIn)) =>
    LET h == cur.errIn[AsHTTPError(cur.errIn)]
    IN /\ cur.c.Status = h.StatusCode
       /\ Envelope.message = h.Message
       /\ Envelope.error_code = "ERR_ECHO"
       /\ Envelope.success = FALSE

\* a routing 405 was answered
C3_Witness ==
  /\ EnvelopeWritten
  /\ cur.errIn = HTTPError(405, "Not Found", NilErr)
  /\ cur.c.Status = 405
  /\ Envelope.error_code = "ERR_ECHO"

\* C4: debug_stack is in the body exactly when the mode is development, the
\* final status is at least 500 and the classified error has a cause; a
\* debug_stack that is present is never empty
C4_DebugStackOnlyInDev ==
  EnvelopeWritten =>
    /\ ("debug_stack" \in DOMAIN Envelope) <=>
         (currentEnv = Development /\ cur.c.Status >= 500 /\ cur.appErr.Err # NilErr)
    /\ ("debug_stack" \in DOMAIN Envelope) => Envelope.debug_stack # ""

\* a 5xx with a cause got its stack in development mode
C4_Witness ==
  /\ EnvelopeWritten
  /\ currentEnv = Development
  /\ cur.c.Status >= 500
  /\ cur.appErr.Err # NilErr
  /\ "debug_stack" \in DOMAIN Envelope

(***************************************************************************)
(* Properties of the middleware chain                                      *)
(***************************************************************************)
IsErrorEnvelope(body) == "success" \in DOMAIN body /\ body.success = FALSE

IsSuccessEnvelope(body) == "success" \in DOMAIN body /\ body.success = TRUE

Range(seq) == { seq[i] : i \in 1..Len(seq) }

\* C5 as stated: a finished request has at most one response; if its chain
\* returned a non-nil error it has exactly one error envelope from exactly one
\* effective ErrorHandler call; if its handler succeeded it has exactly one
\* success envelope; it never has both
C5_OneResponseAsStated ==
  cur.pc = "done" =>
    /\ Len(cur.c.Bodies) <= 1
    /\ cur.chainErr # NilErr =>
         /\ Len(cur.c.Bodies) = 1
         /\ IsErrorEnvelope(cur.c.Bodies[1])
         /\ cur.ehWrites = 1
    /\ cur.outcome = "success" =>
         /\ Len(cur.c.Bodies) = 1
         /\ IsSuccessEnvelope(cur.c.Bodies[1])
    /\ ~(\E i, j \in 1..Len(cur.c.Bodies) :
           IsErrorEnvelope(cur.c.Bodies[i]) /\ IsSuccessEnvelope(cur.c.Bodies[j]))

\* C5 amended: a finished request has at most one response; if its chain
\* returned a non-nil error while the response was uncommitted it has exactly
\* one error envelope from exactly one effective ErrorHandler call; if the
\* response was committed by then ErrorHandler wrote nothing and the committed
\* response stands; if its handler succeeded it has exactly one success
\* response (the success envelope, or the empty body of a 204); never both
C5_OneResponse ==
  cur.pc = "done" =>
    /\ Len(cur.c.Bodies) <= 1
    /\ (cur.chainErr # NilErr /\ ~cur.committedAtReturn) =>
         /\ Len(cur.c.Bodies) = 1
         /\ IsErrorEnvelope(cur.c.Bodies[1])
         /\ cur.c.Status = cur.appErr.StatusCode
         /\ cur.ehWrites = 1
         /\ cur.ehCalls = 1
    /\ (cur.chainErr # NilErr /\ cur.committedAtReturn) =>
         /\ cur.ehWrites = 0
         /\ Len(cur.c.Bodies) = 1
         /\ ~IsErrorEnvelope(cur.c.Bodies[1])
         /\ cur.c.Status \in SuccessStatuses
    /\ cur.outcome = "success" =>
         /\ Len(cur.c.Bodies) = 1
         /\ cur.ehWrites = 0
         /\ IF cur.c.Status = StatusNoContent THEN cur.c.Bodies[1] = EmptyBody
            ELSE IsSuccessEnvelope(cur.c.Bodies[1])
    /\ ~(\E i, j \in 1..Len(cur.c.Bodies) :
           IsErrorEnvelope(cur.c.Bodies[i]) /\ IsSuccessEnvelope(cur.c.Bodies[j]))

\* an error came back on a committed response and nothing more was written
C5_Witness ==
  /\ cur.pc = "done"
  /\ cur.chainErr # NilErr
  /\ cur.committedAtReturn
  /\ cur.ehCalls = 1
  /\ cur.ehWrites = 0
  /\ Len(cur.c.Bodies) = 1
  /\ served = 1

\* the request in flight passed the JWT stage of a protected route
PastJWT == cur.route.jwt /\ cur.pc \notin {"idle", "jwt"}

\* C6: a request without a credential in the header and in the query is
\* rejected by JWTMiddleware with 401 / ERR_UNAUTHORIZED / "Invalid or missing
\* authentication token" on every protected route, and no later stage runs
C6_MissingCredentialUnauthorized ==
  (PastJWT /\ ~cur.hdr.present /\ ~cur.qry.present) =>
    /\ cur.rejectedBy = "jwt"
    /\ cur.roleRuns = 0 /\ cur.handlerRuns = 0
    /\ ~cur.user.present
    /\ cur.pc = "zerolog" =>
         cur.ret = NewAppError(401, "ERR_UNAUTHORIZED",
                               "Invalid or missing authentication token", NoDetails, NilErr)
    /\ cur.pc = "done" =>
         /\ cur.c.Status = 401
         /\ Len(cur.c.Bodies) = 1
         /\ cur.c.Bodies[1].error_code = "ERR_UNAUTHORIZED"
         /\ cur.c.Bodies[1].message = "Invalid or missing authentication token"

\* a request without credentials was answered 401 on a role-gated route
C6_Witness ==
  /\ cur.pc = "done"
  /\ cur.route.jwt /\ cur.route.role
  /\ ~cur.hdr.present /\ ~cur.qry.present
  /\ cur.c.Status = 401

\* C7: two requests rejected by JWTMiddleware for different reasons get the
\* same status, error code and message
C7_RejectionsIndistinguishable ==
  (/\ cur.pc = "done" /\ cur.rejectedBy = "jwt"
   /\ lastRejected.set /\ lastRejected.reason # cur.reason) =>
    /\ Len(cur.c.Bodies) = 1 /\ Len(lastRejected.c.Bodies) = 1
    /\ cur.c.Status = lastRejected.c.Status
    /\ cur.c.Bodies[1].error_code = lastRejected.c.Bodies[1].error_code
    /\ cur.c.Bodies[1].message = lastRejected.c.Bodies[1].message
    /\ cur.c.Bodies[1] = lastRejected.c.Bodies[1]

\* an expired token was rejected after a request without a token
C7_Witness ==
  /\ cur.pc = "done" /\ cur.rejectedBy = "jwt"
  /\ cur.reason = "expired"
  /\ lastRejected.set /\ lastRejected.reason = "missing"

\* the request in flight passed the RequireRole stage with claims attached
PastRoleWithClaims == cur.route.role /\ cur.roleRuns = 1 /\ cur.user.present

\* C8: with valid claims in the context RequireRole runs the next stage, once,
\* exactly when claims.Role is one of the allowed roles; otherwise the request
\* ends 403 / ERR_FORBIDDEN / "Insufficient permissions" and the next stage
\* never runs
C8_RoleGate ==
  /\ (cur.pc = "handler" /\ cur.route.role) =>
        /\ cur.user.Role \in Range(cur.route.allowed)
        /\ cur.roleRuns = 1
  /\ PastRoleWithClaims =>
       IF cur.user.Role \in Range(cur.route.allowed)
       THEN /\ cur.rejectedBy = ""
            /\ cur.handlerRuns = IF cur.pc = "handler" THEN 0 ELSE 1
       ELSE /\ cur.rejectedBy = "role"
            /\ cur.handlerRuns = 0
            /\ cur.pc \in {"zerolog", "done"}
            /\ cur.pc = "zerolog" =>
                 cur.ret = NewAppError(403, "ERR_FORBIDDEN", "Insufficient permissions",
                                       NoDetails, NilErr)
            /\ cur.pc = "done" =>
                 /\ cur.c.Status = 403
                 /\ Len(cur.c.Bodies) = 1
                 /\ cur.c.Bodies[1].error_code = "ERR_FORBIDDEN"
                 /\ cur.c.Bodies[1].message = "Insufficient permissions"

\* role "viewer" against RequireRole("admin") was answered 403
C8_Witness ==
  /\ cur.pc = "done"
  /\ cur.route.allowed = <<"admin">>
  /\ cur.user.present /\ cur.user.Role = "viewer"
  /\ cur.c.Status = 403
  /\ cur.handlerRuns = 0

\* a second allowed role let the request through
C8_WitnessAllowed ==
  /\ cur.pc = "done"
  /\ cur.route.allowed = <<"editor", "admin", "admin">>
  /\ cur.user.present /\ cur.user.Role = "admin"
  /\ cur.handlerRuns = 1

\* C9: RequireRole on a route without JWTMiddleware rejects every request with
\* the 401 of GetClaims, never with 403, and never runs the next stage
C9_StandaloneRoleUnauthorized ==
  (cur.route.role /\ ~cur.route.jwt /\ cur.pc \in {"zerolog", "done"}) =>
    /\ cur.handlerRuns = 0
    /\ cur.rejectedBy = "role"
    /\ cur.pc = "zerolog" =>
         cur.ret = NewAppError(401, "ERR_UNAUTHORIZED", "JWT token missing or invalid",
                               NoDetails, NilErr)
    /\ cur.pc = "done" =>
         /\ cur.errIn = NewAppError(401, "ERR_UNAUTHORIZED", "JWT token missing or invalid",
                                    NoDetails, NilErr)
         /\ cur.c.Status = 401
         /\ Len(cur.c.Bodies) = 1
         /\ cur.c.Bodies[1].error_code = "ERR_UNAUTHORIZED"
         /\ cur.c.Bodies[1].message = "JWT token missing or invalid"

\* a request with a good admin token was answered 401 by standalone RequireRole("admin")
C9_Witness ==
  /\ cur.pc = "done"
  /\ cur.route.role /\ ~cur.route.jwt
  /\ cur.route.allowed = <<"admin">>
  /\ cur.hdr \in ValidTokens /\ cur.hdr.Role = "admin"
  /\ cur.c.Status = 401

C11_RefreshTokenOnly ==
  call.fn = "ValidateRefreshToken" =>
    LET tok == call.tokenString
        good == /\ tok.form = "wellformed"
                /\ tok.key = call.secretKey
                /\ ~tok.expired
    IN /\ call.out.claims.present <=> call.out.err = NilErr
       /\ call.out.claims.present <=> (good /\ tok.TokenType = "refresh")
       /\ call.out.claims.present =>
            /\ call.out.claims.Role = tok.Role
            /\ call.out.claims.TokenType = "refresh"
       /\ (good /\ tok.TokenType = "access") =>
            (~call.out.claims.present /\ call.out.err # NilErr)

\* a correctly signed, unexpired access token was rejected
C11_Witness ==
  /\ call.fn = "ValidateRefreshToken"
  /\ call.tokenString.form = "wellformed"
  /\ call.tokenString.key = call.secretKey
  /\ ~call.tokenString.expired
  /\ call.tokenString.TokenType = "access"
  /\ call.out.err = Opaque("invalid token")
  /\ ~call.out.claims.present

\* C12: GetClaims returns the claims when the context holds a token with
\* JWTClaims; Unauthorized "JWT token missing or invalid" when no token is
\* stored under the key; Unauthorized "Failed to validate token" when the
\* token's claims have another shape; never claims together with an error
C12_GetClaims ==
  call.fn = "GetClaims" =>
    LET holdsToken == call.user.present /\ call.user.form # "nontoken"
        holdsClaims == holdsToken /\ call.user.form # "foreignclaims"
    IN /\ holdsClaims => (call.out.claims = call.user /\ call.out.err = NilErr)
       /\ ~holdsToken =>
            call.out.err = ErrUnauthorized("JWT token missing or invalid")
       /\ (holdsToken /\ ~holdsClaims) =>
            call.out.err = ErrUnauthorized("Failed to validate token")
       /\ ~(call.out.claims.present /\ call.out.err # NilErr)
       /\ call.out.claims.present \/ call.out.err # NilErr

\* GetClaims met a token whose claims are not JWTClaims
C12_Witness ==
  /\ call.fn = "GetClaims"
  /\ call.user = ForeignClaimsToken
  /\ call.out.err = ErrUnauthorized("Failed to validate token")
  /\ ~call.out.claims.present

\* the error kind a constructor stands for
KindOf(ctor) ==
  CASE ctor = "ErrBadRequest" -> "BadRequest"
    [] ctor = "ErrValidationFailed" -> "Validation"
    [] ctor = "ErrUnauthorized" -> "Unauthorized"
    [] ctor = "ErrForbidden" -> "Forbidden"
    [] ctor = "ErrNotFound" -> "NotFound"
    [] ctor = "ErrConflict" -> "Conflict"
    [] ctor = "ErrTooManyRequests" -> "RateLimited"
    [] ctor = "ErrUnsupportedMediaType" -> "UnsupportedMedia"
    [] ctor = "ErrServiceUnavailable" -> "ServiceUnavailable"
    [] OTHER -> "Internal"

StatusOfKind(kind) ==
  CASE kind = "BadRequest" -> 400
    [] kind = "Validation" -> 422
    [] kind = "Unauthorized" -> 401
    [] kind = "Forbidden" -> 403
    [] kind = "NotFound" -> 404
    [] kind = "Conflict" -> 409
    [] kind = "RateLimited" -> 429
    [] kind = "UnsupportedMedia" -> 415
    [] kind = "ServiceUnavailable" -> 503
    [] kind = "Internal" -> 500

\* C13: every constructor gives the status of its kind (400, 422, 401, 403,
\* 404, 409, 429, 415, 503, 500); any other construction of the same kind
\* gives the same status and code, and a construction of another kind gives
\* another code
C13_ConstructorTable ==
  call.fn = "Construct" =>
    /\ Len(call.out) = 1
    /\ call.out[1].kind = "app"
    /\ call.out[1].StatusCode = StatusOfKind(KindOf(call.ctor))
    /\ \A ctor \in Constructors, message \in ConstructMessages, details \in DetailValues,
          validation \in ConstructValidations, err \in Causes :
         LET other == Construct(ctor, message, details, validation, err)[1]
         IN IF KindOf(ctor) = KindOf(call.ctor)
            THEN /\ other.StatusCode = call.out[1].StatusCode
                 /\ other.Code = call.out[1].Code
            ELSE other.Code # call.out[1].Code

\* a Conflict error was constructed
C13_Witness ==
  /\ call.fn = "Construct"
  /\ call.ctor = "ErrConflict"
  /\ call.out[1].StatusCode = 409
  /\ call.out[1].Code = "ERR_CONFLICT"

\* the violations of a validation failure, <<>> for any other error
ViolationsOf(err) ==
  IF \E i \in 1..Len(err) : err[i].kind = "validation"
  THEN err[CHOOSE i \in 1..Len(err) : err[i].kind = "validation"].Details.items
  ELSE <<>>

\* C14: ToValidationErrors returns one entry per violation, the i-th entry
\* naming the field of the i-th violation; a validation failure without
\* violations and an error of any other shape give the empty sequence
C14_OneEntryPerViolation ==
  call.fn = "ToValidationErrors" =>
    /\ Len(call.out) = Len(ViolationsOf(call.err))
    /\ \A k \in 1..Len(call.out) : call.out[k].Field = ViolationsOf(call.err)[k].Field
    /\ (\A i \in 1..Len(call.err) : call.err[i].kind # "validation") => call.out = <<>>

\* a wrapped validation failure with two violations was translated
C14_Witness ==
  /\ call.fn = "ToValidationErrors"
  /\ Len(call.err) = 2
  /\ Len(ViolationsOf(call.err)) = 2
  /\ Len(call.out) = 2
  /\ call.out[1].Field = "Name"
  /\ call.out[2].Field = "Description"

\* the constraints the statement of the message table names
StatedTags == {"required", "min", "max", "oneof", "email", "url", "uuid"}

\* what both readings of the message table share: the message depends on the
\* constraint and its parameter only; required has its fixed message; min, max
\* and oneof carry the parameter; email, url and uuid have messages of their own
MessageTableCommon ==
  /\ \A f \in FieldNames : validationMessage([call.e EXCEPT !.Field = f]) = call.out
  /\ call.e.Tag = "required" => call.out = <<"This field is required">>
  /\ call.e.Tag \in {"min", "max", "oneof"} => call.e.Param \in Range(call.out)
  /\ call.e.Tag = "email" => call.out = <<"Must be a valid email address">>
  /\ call.e.Tag = "url" => call.out = <<"Must be a valid URL">>
  /\ call.e.Tag = "uuid" => call.out = <<"Must be a valid UUID">>

\* C15 as stated: the table is required, min, max, oneof, email, url, uuid, and
\* every other constraint gets "Invalid value"
C15_TableAsStated ==
  call.fn = "validationMessage" =>
    /\ MessageTableCommon
    /\ call.e.Tag \notin StatedTags => call.out = <<"Invalid value">>

\* C15: the message of a FieldViolation depends on the constraint and its
\* parameter only; the table also holds gte, gt, lte, lt and len (messages
\* carrying the parameter) and alpha, alphanum, numeric and ip (fixed
\* messages); only a constraint outside this larger table gets "Invalid value"
C15_MessageTable ==
  call.fn = "validationMessage" =>
    /\ MessageTableCommon
    /\ call.e.Tag \in {"gte", "gt", "lte", "lt", "len"} =>
         (call.e.Param \in Range(call.out) /\ call.out # <<"Invalid value">>)
    /\ call.e.Tag = "alpha" => call.out = <<"Must contain only letters">>
    /\ call.e.Tag = "alphanum" => call.out = <<"Must contain only letters and numbers">>
    /\ call.e.Tag = "numeric" => call.out = <<"Must be a valid numeric value">>
    /\ call.e.Tag = "ip" => call.out = <<"Must be a valid IP address">>
    /\ call.e.Tag \notin TableTags <=> call.out = <<"Invalid value">>

\* a gte violation got a message carrying its parameter
C15_Witness ==
  /\ call.fn = "validationMessage"
  /\ call.e.Tag = "gte"
  /\ call.e.Param = "3"
  /\ call.out = <<"Must be greater than or equal to ", "3">>

\* C16: respondSuccess with status 204 on an uncommitted response writes an
\* empty body, without a data key, whatever message and data are passed; with
\* any other status it writes the envelope success=true, timestamp, message,
\* request_id, data under that status
C16_NoContentHasNoBody ==
  (call.fn = "respondSuccess" /\ ~call.c.Committed) =>
    /\ call.out.Committed
    /\ call.out.Status = call.status
    /\ Len(call.out.Bodies) = 1
    /\ IF call.status = 204
       THEN /\ call.out.Bodies[1] = EmptyBody
            /\ "data" \notin DOMAIN call.out.Bodies[1]
       ELSE /\ DOMAIN call.out.Bodies[1] =
                 {"success", "timestamp", "message", "request_id", "data"}
            /\ call.out.Bodies[1].success = TRUE
            /\ call.out.Bodies[1].message = call.message
            /\ call.out.Bodies[1].request_id = call.c.RequestID
            /\ call.out.Bodies[1].data = call.data

\* NoContent was asked to send a message and a payload
C16_Witness ==
  /\ call.fn = "respondSuccess"
  /\ ~call.c.Committed
  /\ call.status = 204
  /\ call.message # ""
  /\ call.data = "item"
  /\ call.out.Status = 204
  /\ call.out.Bodies = <<EmptyBody>>

\* C19: ErrorHandler never raises to its caller, and whatever error it is
\* given on an uncommitted response (a typed-nil AppError, a framework error
\* with a non-string message, details that cannot be serialized) the client
\* gets a response, a bare 500 where the envelope cannot be written
C19_NeverRaises ==
  (call.fn = "ErrorHandler" /\ call.err # NilErr /\ ~call.c.Committed) =>
    /\ ~call.raised
    /\ (~Serializable(ClassifyError(call.err).Details)
          \/ ~ValidStatusCode(ClassifyError(call.err).StatusCode)) =>
           /\ ClientResponse(call.out).Status = 500
           /\ call.out.Committed
           /\ Len(call.out.Bodies) = 1
           /\ "details" \notin DOMAIN call.out.Bodies[1]
           /\ "debug_stack" \notin DOMAIN call.out.Bodies[1]

(***************************************************************************)
(* Properties of the item handlers                                         *)
(***************************************************************************)
\* the request in flight is over and was a Create or Update whose body bound
\* and failed validation
FailedValidation ==
  /\ cur.pc = "done"
  /\ cur.op \in {"Create", "Update"}
  /\ cur.op = "Update" => cur.id \in ItemIDs
  /\ cur.body.bindOK
  /\ Validate(cur.op, cur.body) # NilErr

\* C17: a Create or Update request whose body fails validation ends in 422,
\* error_code ERR_VALIDATION, message "Validation failed", with one detail per
\* violated field in declaration order, and the service is not called
C17_ValidationFailureIs422 ==
  FailedValidation =>
    /\ cur.serviceCalls = 0
    /\ cur.c.Status = 422
    /\ Len(cur.c.Bodies) = 1
    /\ cur.c.Bodies[1].error_code = "ERR_VALIDATION"
    /\ cur.c.Bodies[1].message = "Validation failed"
    /\ "details" \in DOMAIN cur.c.Bodies[1]
    /\ cur.c.Bodies[1].details =
         ValidationDetails(ToValidationErrors(Validate(cur.op, cur.body)))

\* err is gorm.ErrRecordNotFound, bare or wrapped (errors.Is)
IsRecordNotFound(err) ==
  \E i \in 1..Len(err) : SubSeq(err, i, Len(err)) = ErrRecordNotFound

\* C18: in GetByID and Update a persistence result of record-not-found, also
\* when wrapped, ends in 404 ERR_NOT_FOUND; any other persistence error ends in
\* 500 ERR_INTERNAL "Something went wrong", without debug_stack outside
\* development mode
C18_PersistenceErrorMapping ==
  (cur.pc = "done" /\ cur.op \in {"GetByID", "Update"} /\ cur.persistErr # NilErr) =>
    /\ Len(cur.c.Bodies) = 1
    /\ IF IsRecordNotFound(cur.persistErr)
       THEN /\ cur.c.Status = 404
            /\ cur.c.Bodies[1].error_code = "ERR_NOT_FOUND"
       ELSE /\ cur.c.Status = 500
            /\ cur.c.Bodies[1].error_code = "ERR_INTERNAL"
            /\ cur.c.Bodies[1].message = "Something went wrong"
            /\ currentEnv # Development => "debug_stack" \notin DOMAIN cur.c.Bodies[1]

(***************************************************************************)
(* Properties of the per-request claims                                    *)
(***************************************************************************)
\* C20: the claims of a request are written at most once, by JWTMiddleware
\* when it accepts one of the request's own credentials, and never change
\* afterwards; RequireRole (and GetClaims inside it) leaves them as they are
\* whether it permits or denies; a new request starts without the claims of
\* the one before
C20_ClaimsWrittenOnce ==
  [][/\ cur'.user # cur.user =>
          \/ /\ cur.pc = "jwt"
             /\ ~cur.user.present
             /\ cur'.user \in ValidTokens
             /\ cur'.user \in {cur.hdr, cur.qry}
          \/ /\ cur.pc = "done"
             /\ cur'.pc = "idle"
             /\ ~cur'.user.present
     /\ cur.pc = "role" => cur'.user = cur.user
     /\ cur.user.present => cur'.user \in {cur.user, NoToken}
     /\ (cur.pc = "idle" /\ cur'.pc # "idle") => ~cur'.user.present]_vars

\* the second request carries claims and has been denied by RequireRole
C20_Witness ==
  /\ served = 1
  /\ cur.pc = "done"
  /\ cur.user.present
  /\ cur.roleRuns = 1
  /\ cur.rejectedBy = "role"

(***************************************************************************)
(* Properties of requests handled at the same time                         *)
(***************************************************************************)
\* C21: whatever the interleaving, a finished request has the status and
\* body the chain gives it when run alone, and the mode flag is written only
\* before the server serves, with no request in flight
C21_IndependentOfInterleaving ==
  /\ [](\A i \in Slots :
          slots[i].req.pc = "done" =>
            slots[i].req.c = Solo(slots[i].req.route, slots[i].req.hdr, slots[i].req.qry,
                                  slots[i].req.c.RequestID, slots[i].choice, currentEnv).c)
  /\ [][currentEnv' # currentEnv =>
          (phase = "boot" /\ \A i \in Slots : slots[i].req.pc = "idle")]_vars

\* one request was denied by the role gate while another, accepted, is still
\* on its way back through the chain
C21_Witness ==
  /\ slots[1].req.pc = "done"
  /\ slots[1].req.c.Status = 403
  /\ slots[2].req.pc = "zerolog"
  /\ slots[2].req.c.Status = 200

\* the status and the error code each Gin error helper is fixed to
LegacyStatusAndCode(helper) ==
  CASE helper = "BadRequest" -> <<400, "BAD_REQUEST">>
    [] helper = "ValidationError" -> <<400, "VALIDATION_ERROR">>
    [] helper = "NotFound" -> <<404, "NOT_FOUND">>
    [] helper = "Unauthorized" -> <<401, "UNAUTHORIZED">>
    [] helper = "Forbidden" -> <<403, "FORBIDDEN">>
    [] helper = "Conflict" -> <<409, "CONFLICT">>
    [] helper = "InternalError" -> <<500, "INTERNAL_ERROR">>
    [] helper = "RateLimitExceeded" -> <<429, "RATE_LIMIT_EXCEEDED">>

\* C22: every Gin error helper aborts the chain, so that no later handler
\* runs, and writes success=false, a non-empty top-level message and its own
\* status and error code; every Gin success helper writes success=true and a
\* non-empty top-level message
C22_LegacyHelpers ==
  call.fn = "LegacyHelper" =>
    /\ Len(call.out.Bodies) = 1
    /\ call.out.Bodies[1].message # ""
    /\ IF call.helper \in LegacyErrorHelpers
       THEN /\ call.out.aborted
            /\ call.out.laterRuns = 0
            /\ call.out.Bodies[1].success = FALSE
            /\ call.out.Status = LegacyStatusAndCode(call.helper)[1]
            /\ call.out.Bodies[1].error.code = LegacyStatusAndCode(call.helper)[2]
       ELSE call.out.Bodies[1].success = TRUE

\* ValidationError was given a validation failure and stopped the chain
C22_Witness ==
  /\ call.fn = "LegacyHelper"
  /\ call.helper = "ValidationError"
  /\ call.err # NilErr
  /\ call.out.aborted
  /\ call.out.laterRuns = 0
  /\ call.out.Status = 400
  /\ "details" \in DOMAIN call.out.Bodies[1].error

\* C23: ErrorHandler given a nil error, or a response already committed,
\* writes nothing and leaves status and body as they were; respondSuccess on a
\* committed response writes nothing and returns nil
C23_NoSecondWrite ==
  /\ (call.fn = "ErrorHandler" /\ (call.err = NilErr \/ call.c.Committed)) =>
       /\ call.out = call.c
       /\ ~call.raised
  /\ (call.fn = "respondSuccess" /\ call.c.Committed) =>
       /\ call.out = call.c
       /\ call.ret = NilErr

\* ErrorHandler was handed a real error after the response had been written
C23_Witness ==
  /\ call.fn = "ErrorHandler"
  /\ call.err # NilErr
  /\ call.c.Committed
  /\ Len(call.c.Bodies) = 1
  /\ call.out.Bodies = call.c.Bodies
  /\ call.out.Status = call.c.Status

\* the error has a link of the given kind on its wrap chain
ChainHas(err, kind) == \E i \in 1..Len(err) : err[i].kind = kind

\* C24: ErrorHandler classifies by strict priority: an AppError on the wrap
\* chain decides the response even when a framework error is on the chain
\* too, the framework rule applies only without an AppError, the opaque rule
\* only without either; exactly one rule answers each error
C24_StrictPriority ==
  (call.fn = "ErrorHandler" /\ call.err # NilErr /\ ~call.c.Committed /\ call.out.Committed) =>
    /\ Len(call.out.Bodies) = 1
    /\ ChainHas(call.err, "app") =>
         \E i \in 1..Len(call.err) :
           /\ call.err[i].kind = "app"
           /\ call.out.Bodies[1].message = call.err[i].Message
           /\ call.out.Bodies[1].error_code =
                (IF call.err[i].Code = "" THEN "ERR_UNKNOWN" ELSE call.err[i].Code)
           /\ call.out.Status =
                (IF call.err[i].StatusCode = 0 THEN 500 ELSE call.err[i].StatusCode)
    /\ (~ChainHas(call.err, "app") /\ ChainHas(call.err, "http")) =>
         /\ call.out.Bodies[1].error_code = "ERR_ECHO"
         /\ \E i \in 1..Len(call.err) :
              /\ call.err[i].kind = "http"
              /\ call.out.Status = (IF call.err[i].StatusCode = 0 THEN 200
                                    ELSE call.err[i].StatusCode)
    /\ (~ChainHas(call.err, "app") /\ ~ChainHas(call.err, "http")) =>
         /\ call.out.Bodies[1].error_code = "ERR_INTERNAL"
         /\ call.out.Bodies[1].message = "Something went wrong"
         /\ call.out.Status = 500

\* a framework error carrying an AppError was answered as the AppError
C24_Witness ==
  /\ call.fn = "ErrorHandler"
  /\ ~call.c.Committed
  /\ Len(call.err) = 2
  /\ call.err[1].kind = "http"
  /\ call.err[2].kind = "app"
  /\ call.out.Committed
  /\ call.out.Status = 404
  /\ call.out.Bodies[1].error_code = call.err[2].Code
  /\ call.out.Bodies[1].error_code # "ERR_ECHO"

\* the request in slot i is an answered update of id that sent only a name
\* (field = "Name") or only a description (field = "Description")
UpdatedOnly(i, id, field) ==
  /\ slots[i].req.pc = "done"
  /\ slots[i].req.op = "Update"
  /\ slots[i].req.id = id
  /\ slots[i].req.persistErr = NilErr
  /\ slots[i].req.body.hasName = (field = "Name")
  /\ slots[i].req.body.hasDescription = (field = "Description")

\* C25: two concurrent updates of one existing item, one sending only a name
\* and one only a description, both take effect under every interleaving:
\* when both are answered the row has the new name and the new description
C25_BothUpdatesTakeEffect ==
  \A i, j \in Slots, id \in ItemIDs :
    (/\ i # j
     /\ UpdatedOnly(i, id, "Name")
     /\ UpdatedOnly(j, id, "Description")
     /\ \A k \in Slots \ {i, j} : slots[k].req.id # id) =>
      /\ itemsTable[id].present
      /\ itemsTable[id].Name = slots[i].req.body.Name
      /\ itemsTable[id].Description = slots[j].req.body.Description

\* both requests arrived before either wrote, and both are answered
C25_Witness ==
  /\ UpdatedOnly(1, "id-1", "Name")
  /\ UpdatedOnly(2, "id-1", "Description")
  /\ slots[1].seen = Item(NameMin, 0)
  /\ slots[2].seen = Item(NameMin, 0)
  /\ slots[1].req.c.Status = 200
  /\ slots[2].req.c.Status = 200
  /\ itemsTable["id-1"] = Item(NameMax, DescriptionMax)

\* C26: a Delete answers 204 only if it removed a row; a Delete of an id the
\* table does not hold (never created, or deleted before) answers 404 "Item
\* not found", so no second 204 follows for the same id; a persistence error
\* answers 500
C26_DeleteOnlyOnce ==
  (cur.pc = "done" /\ cur.op = "Delete" /\ cur.serviceCalls = 1) =>
    /\ cur.c.Status = 204 => cur.rowsAffected = 1
    /\ (cur.persistErr = NilErr /\ cur.rowsAffected = 0) =>
         /\ cur.c.Status = 404
         /\ Len(cur.c.Bodies) = 1
         /\ cur.c.Bodies[1].message = "Item not found"
    /\ cur.persistErr # NilErr => cur.c.Status = 500

\* the limit and the offset GetAll is to hand to the service
ClampedLimit(q) ==
  IF ~q.present \/ ~q.numeric \/ q.value <= 0 THEN 20
  ELSE IF q.value > 100 THEN 100
  ELSE q.value

ClampedOffset(q) == IF ~q.present \/ ~q.numeric \/ q.value < 0 THEN 0 ELSE q.value

\* C30: whatever the limit and offset parameters, GetAll calls the service
\* with 1 <= limit <= 100 and offset >= 0: a missing, unparsable or
\* non-positive limit becomes 20, one above 100 becomes 100, one in 1..100
\* stays; a negative or unparsable offset becomes 0
C30_PaginationClamped ==
  (cur.op = "GetAll" /\ cur.serviceCalls = 1) =>
    /\ cur.svcLimit >= 1 /\ cur.svcLimit <= 100
    /\ cur.svcOffset >= 0
    /\ cur.svcLimit = ClampedLimit(cur.limit)
    /\ cur.svcOffset = ClampedOffset(cur.offset)

\* C27: ErrorHandler leaves the error it is given as it was: the AppError
\* passed in has the same StatusCode, Code, Message, Details and Err after
\* the call, also when its StatusCode was 0 or its Code empty
C27_ErrorUnchanged ==
  cur.ehCalls > 0 =>
    /\ Len(cur.errOut) = Len(cur.errIn)
    /\ \A i \in 1..Len(cur.errIn) :
         cur.errIn[i].kind = "app" =>
           /\ cur.errOut[i].StatusCode = cur.errIn[i].StatusCode
           /\ cur.errOut[i].Code = cur.errIn[i].Code
           /\ cur.errOut[i].Message = cur.errIn[i].Message
           /\ cur.errOut[i].Details = cur.errIn[i].Details
           /\ cur.errOut[i].Err = cur.errIn[i].Err

\* the credential is a token whose signature verifies and whose exp is ahead
Verifies(tok) ==
  tok.present /\ tok.form = "wellformed" /\ tok.sig = "good" /\ ~tok.expired

\* C28: JWTMiddleware accepts every request carrying a token that verifies and
\* is unexpired and attaches its claims, whatever the token_type: a refresh
\* token passes as an access credential on a protected route
C28_TokenTypeNotChecked ==
  (/\ cur.route.jwt
   /\ cur.pc \notin {"idle", "jwt"}
   /\ (Verifies(cur.hdr) \/ Verifies(cur.qry))) =>
    /\ cur.rejectedBy # "jwt"
    /\ cur.user = (IF Verifies(cur.hdr) THEN cur.hdr ELSE cur.qry)

\* a refresh token got a request through to the handler of a protected route
C28_Witness ==
  /\ cur.route.jwt
  /\ Verifies(cur.hdr)
  /\ cur.hdr.TokenType = "refresh"
  /\ cur.user.TokenType = "refresh"
  /\ cur.handlerRuns = 1
  /\ cur.outcome = "success"
  /\ cur.pc = "done"

\* spellings of "development" in any mix of cases among the arguments drawn
DevelopmentIgnoringCase == {"development", "Development", "DEVELOPMENT"}

\* C29: after any sequence of SetEnv calls the mode is Development exactly
\* when the last argument is "development" in any case; before the first call,
\* and after any other argument, the empty string among them, it is
\* Production; exactly one of IsDev and IsProd is true in every state
C29_ModeFollowsLastSetEnv ==
  /\ IsDev # IsProd
  /\ call.fn # "SetEnv" => IsProd
  /\ call.fn = "SetEnv" =>
       IF call.args[Len(call.args)] \in DevelopmentIgnoringCase
       THEN currentEnv = Development /\ IsDev
       ELSE currentEnv = Production /\ IsProd

\* "DEVELOPMENT" came last, after a call that had set Production
C29_Witness ==
  /\ call.fn = "SetEnv"
  /\ Len(call.args) = 3
  /\ call.args[1] = "development"
  /\ call.args[2] = ""
  /\ call.args[3] = "DEVELOPMENT"
  /\ IsDev
  /\ ~IsProd

====
